---- MODULE Spec2Model ----
(***************************************************************************)
(* ShopWell: the brand-variant price comparison engine                     *)
(* (utils/priceHelper, brand-based pricing model).                         *)
(*                                                                         *)
(* The engine is a set of pure functions over three collections: the shop  *)
(* catalog, the product catalog and the price records (ShopProductBrand).  *)
(* The collections reach the engine from the application state, which is   *)
(* filled by the reducer and by importFromCSV; neither checks that record  *)
(* ids are unique, that a record's shop or product exists, or that a price *)
(* is positive.                                                            *)
(*                                                                         *)
(* Prices are integers (minor currency units).  A percentage is kept as an *)
(* exact fraction [num, den]; floating point rounding is not modelled.     *)
(* Of a record only the fields the engine reads are kept: id, productId,   *)
(* shopId, price.                                                          *)
(***************************************************************************)
EXTENDS Integers, Sequences, FiniteSets, TLC

VARIABLES shopProductBrands, shops, products, items, last,
          shoppingLists, schedules, settings,
          storage, requests, loader,
          lastNotifiedShops, notificationHistory, now, calls

(***************************************************************************)
(* The application state (AppState) is the six fields shops, products,     *)
(* shopProductBrands, shoppingLists, schedules and settings.  storage is   *)
(* the blob under STORAGE_KEY, requests the storage requests in flight and *)
(* loader the position of the mount-time load.  lastNotifiedShops and      *)
(* notificationHistory are the module variables of the notification        *)
(* service, now is Date.now() and calls the notifyNearbyShops calls in     *)
(* progress.  items and last are arguments and results of engine calls.    *)
(***************************************************************************)
persistence == <<storage, requests, loader>>

notifier == <<lastNotifiedShops, notificationHistory, now, calls>>

elsewhere == <<shoppingLists, schedules, settings, persistence, notifier>>

vars == <<shopProductBrands, shops, products, items, last, elsewhere>>

(***************************************************************************)
(* Bounds of the model.                                                    *)
(***************************************************************************)
MaxRecs == 3
MaxFewRecs == 2
MaxAltRecs == 4
NumIds == 2
MaxPrice == 1
MaxNegPrice == 2
MaxItems == 2

ProductIds == {"p1", "p2"}
ShopIds == {"s1", "s2"}
RecordIds == 1..NumIds
Prices == 0..MaxPrice
SignedPrices == (0 - MaxNegPrice)..MaxPrice
SortPrices == 0..(MaxPrice + 1)
Quantities == {1, 2}

NULL == [null |-> TRUE]

ShopName(id) == IF id = "s1" THEN "Aldi" ELSE "Lidl"

Shop(id) == [id |-> id, name |-> ShopName(id)]

Product(id) == [id |-> id]

(* the settings of a fresh installation                                    *)
defaultSettings ==
  [locationNotificationsEnabled |-> FALSE, defaultGeofenceRadius |-> 200,
   currency |-> "EUR"]

(* callers of the notification service                                     *)
Callers == {"c1", "c2"}

(* no load in progress; savedState is <<>> for null, <<state>> for a state *)
LoaderDone == [pc |-> "done", savedState |-> <<>>]

IdleCall == [pc |-> "idle", rest |-> <<>>]

(* What the parts outside a specification's concern hold: the other fields *)
(* of the initial state, an empty storage with no request in flight, and   *)
(* the notification service as its module leaves it (a map entry of 0      *)
(* stands for no entry: the code tests the entry by its truthiness).       *)
ElsewhereIdle ==
  /\ shoppingLists = <<>>
  /\ schedules = <<>>
  /\ settings = defaultSettings
  /\ storage = <<>>
  /\ requests = <<>>
  /\ loader = LoaderDone
  /\ lastNotifiedShops = [s \in ShopIds |-> 0]
  /\ notificationHistory = <<>>
  /\ now = 1
  /\ calls = [c \in Callers |-> IdleCall]

(* a price record without its id; brand, currency and lastUpdated are not  *)
(* read by the engine                                                      *)
Offers(PriceSet) == [productId : ProductIds, shopId : ShopIds, price : PriceSet]

ShopProductBrand(id, offer) ==
  [id |-> id, productId |-> offer.productId, shopId |-> offer.shopId,
   price |-> offer.price]

(* records whose ids are all different, as generateId makes them; the id   *)
(* of a record is its position                                             *)
RecordsWithOwnIds(offers) == [i \in DOMAIN offers |-> ShopProductBrand(i, offers[i])]

(* records read by importFromCSV: the id column is taken as it is *)
ImportedRecords(ids, offers) ==
  [i \in DOMAIN offers |-> ShopProductBrand(ids[i], offers[i])]

SeqsUpTo(S, n) == UNION {[1..k -> S] : k \in 0..n}

MapSeq(seq, F(_)) == [i \in 1..Len(seq) |-> F(seq[i])]

IsInjective(seq) ==
  \A i, j \in 1..Len(seq) : seq[i] = seq[j] => i = j

(* shop catalogs and product catalogs: every order of every subset of ids  *)
ShopCatalogs ==
  {MapSeq(ids, Shop) : ids \in {q \in SeqsUpTo(ShopIds, Cardinality(ShopIds)) : IsInjective(q)}}

ProductCatalogs ==
  {MapSeq(ids, Product) : ids \in {q \in SeqsUpTo(ProductIds, Cardinality(ProductIds)) : IsInjective(q)}}

(***************************************************************************)
(* Array helpers of the language runtime.                                  *)
(***************************************************************************)
find(seq, Test(_)) ==
  LET hits == SelectSeq(seq, Test) IN IF hits = <<>> THEN NULL ELSE Head(hits)

RECURSIVE uniq(_)
uniq(seq) ==
  IF seq = <<>> THEN <<>>
  ELSE LET init == uniq(SubSeq(seq, 1, Len(seq) - 1))
           x == seq[Len(seq)]
       IN IF \E i \in 1..Len(init) : init[i] = x THEN init ELSE Append(init, x)

(* Array.prototype.sort with a comparator: a stable sort *)
sort(seq, Cmp(_, _)) ==
  LET RECURSIVE ins(_, _)
      ins(sorted, x) ==
        IF sorted = <<>> THEN <<x>>
        ELSE IF Cmp(sorted[Len(sorted)], x) <= 0 THEN Append(sorted, x)
        ELSE Append(ins(SubSeq(sorted, 1, Len(sorted) - 1), x), sorted[Len(sorted)])
      RECURSIVE srt(_)
      srt(q) ==
        IF q = <<>> THEN <<>>
        ELSE ins(srt(SubSeq(q, 1, Len(q) - 1)), q[Len(q)])
  IN srt(seq)

(***************************************************************************)
(* priceHelper, brand variant.                                             *)
(***************************************************************************)
cheaperOf_max(min, spb) == IF spb.price > min.price THEN spb ELSE min

cheaperOf(min, spb) == IF spb.price < min.price THEN spb ELSE min

RECURSIVE reduceFrom(_, _)
reduceFrom(min, rest) ==
  IF rest = <<>> THEN min ELSE reduceFrom(cheaperOf(min, Head(rest)), Tail(rest))

reduceCheapest_first(list) == Head(list)

reduceCheapest(list) == reduceFrom(Head(list), Tail(list))

brandsAtShop_anyShop(productId, shopId, spbs) ==
  SelectSeq(spbs, LAMBDA spb : spb.productId = productId)

brandsAtShop(productId, shopId, spbs) ==
  SelectSeq(spbs, LAMBDA spb : spb.productId = productId /\ spb.shopId = shopId)

getCheapestBrandAtShop(productId, shopId, spbs) ==
  LET atShop == brandsAtShop(productId, shopId, spbs)
  IN IF Len(atShop) = 0 THEN NULL ELSE reduceCheapest(atShop)

Zero == [num |-> 0, den |-> 1]

savingsPercentOf_fraction(savings, price) ==
  IF price > 0 THEN [num |-> savings, den |-> price] ELSE Zero

savingsPercentOf_noGuard(savings, price) == [num |-> savings * 100, den |-> price]

savingsPercentOf(savings, price) ==
  IF price > 0 THEN [num |-> savings * 100, den |-> price] ELSE Zero

sameRecord_byPrice(a, b) == a.price = b.price

sameRecord(a, b) == a.id = b.id

shopNameOr_raw(shop) == IF shop = NULL THEN "" ELSE shop.name

shopNameOr(shop) == IF shop = NULL \/ shop.name = "" THEN "Unknown" ELSE shop.name

getPriceComparison(productId, shopId, spbs, shopList) ==
  LET cheapestAtThisShop == getCheapestBrandAtShop(productId, shopId, spbs)
      allBrandOptions == SelectSeq(spbs, LAMBDA spb : spb.productId = productId)
  IN IF cheapestAtThisShop = NULL THEN NULL
     ELSE IF Len(allBrandOptions) = 0 THEN NULL
     ELSE LET cheapestAnywhere == reduceCheapest(allBrandOptions)
              cheapestShop == find(shopList, LAMBDA s : s.id = cheapestAnywhere.shopId)
              savings == cheapestAtThisShop.price - cheapestAnywhere.price
          IN [currentPrice |-> cheapestAtThisShop.price,
              cheapestPrice |-> cheapestAnywhere.price,
              cheapestShopId |-> cheapestAnywhere.shopId,
              cheapestShopName |-> shopNameOr(cheapestShop),
              savings |-> savings,
              savingsPercent |-> savingsPercentOf(savings, cheapestAtThisShop.price),
              isCheapest |-> sameRecord(cheapestAtThisShop, cheapestAnywhere)]

getCheapestOption(productId, spbs, shopList) ==
  LET allOptions == SelectSeq(spbs, LAMBDA spb : spb.productId = productId)
  IN IF Len(allOptions) = 0 THEN NULL
     ELSE LET cheapest == reduceCheapest(allOptions)
              shop == find(shopList, LAMBDA s : s.id = cheapest.shopId)
          IN IF shop = NULL THEN NULL
             ELSE [shop |-> shop, brand |-> cheapest, price |-> cheapest.price]

Infinity == 999999

byPriceAsc_unsorted(a, b) == 0

byPriceAsc(a, b) == a.price - b.price

byCheapestPriceAsc_desc(a, b) == b.cheapestPrice - a.cheapestPrice

byCheapestPriceAsc(a, b) == a.cheapestPrice - b.cheapestPrice

shopIdsOf(productId, spbs) ==
  uniq(MapSeq(SelectSeq(spbs, LAMBDA spb : spb.productId = productId),
              LAMBDA spb : spb.shopId))

shopGroup_keepUnresolved(productId, shopId, spbs, shopList) ==
  LET shop == find(shopList, LAMBDA s : s.id = shopId)
      brands == sort(brandsAtShop(productId, shopId, spbs), byPriceAsc)
  IN [shop |-> shop, brands |-> brands, cheapestPrice |-> brands[1].price]

shopGroup(productId, shopId, spbs, shopList) ==
  LET shop == find(shopList, LAMBDA s : s.id = shopId)
      brands == sort(brandsAtShop(productId, shopId, spbs), byPriceAsc)
      cheapestPrice == IF Len(brands) > 0 THEN brands[1].price ELSE Infinity
  IN IF shop # NULL
     THEN [shop |-> shop, brands |-> brands, cheapestPrice |-> cheapestPrice]
     ELSE NULL

getAllPricesForProduct(productId, spbs, shopList) ==
  LET shopIds == shopIdsOf(productId, spbs)
      groups == MapSeq(shopIds, LAMBDA shopId : shopGroup(productId, shopId, spbs, shopList))
  IN sort(SelectSeq(groups, LAMBDA item : item # NULL), byCheapestPriceAsc)

productIdsAt_noSet(shopId, spbs) ==
  MapSeq(SelectSeq(spbs, LAMBDA spb : spb.shopId = shopId), LAMBDA spb : spb.productId)

productIdsAt(shopId, spbs) ==
  uniq(MapSeq(SelectSeq(spbs, LAMBDA spb : spb.shopId = shopId),
              LAMBDA spb : spb.productId))

worthSwitching_orEqual(savings) == savings >= 0

worthSwitching(savings) == savings > 0

alternativesFor_noProductCheck(productId, shopId, spbs, shopList, productList) ==
  LET cheapestAtThisShop == getCheapestBrandAtShop(productId, shopId, spbs)
      cheapestAnywhere == getCheapestOption(productId, spbs, shopList)
  IN IF cheapestAtThisShop # NULL /\ cheapestAnywhere # NULL
     THEN IF cheapestAnywhere.shop.id # shopId
               /\ worthSwitching(cheapestAtThisShop.price - cheapestAnywhere.price)
          THEN <<[product |-> find(productList, LAMBDA p : p.id = productId),
                  currentBrand |-> cheapestAtThisShop,
                  currentPrice |-> cheapestAtThisShop.price,
                  cheapestPrice |-> cheapestAnywhere.price,
                  cheapestShop |-> cheapestAnywhere.shop,
                  cheapestBrand |-> cheapestAnywhere.brand,
                  savings |-> cheapestAtThisShop.price - cheapestAnywhere.price]>>
          ELSE <<>>
     ELSE <<>>

(* the body of the forEach callback: the entries it pushes for one product *)
alternativesFor(productId, shopId, spbs, shopList, productList) ==
  LET cheapestAtThisShop == getCheapestBrandAtShop(productId, shopId, spbs)
      cheapestAnywhere == getCheapestOption(productId, spbs, shopList)
  IN IF cheapestAtThisShop # NULL /\ cheapestAnywhere # NULL
     THEN IF cheapestAnywhere.shop.id # shopId
          THEN LET savings == cheapestAtThisShop.price - cheapestAnywhere.price
                   product == find(productList, LAMBDA p : p.id = productId)
               IN IF worthSwitching(savings) /\ product # NULL
                  THEN <<[product |-> product,
                          currentBrand |-> cheapestAtThisShop,
                          currentPrice |-> cheapestAtThisShop.price,
                          cheapestPrice |-> cheapestAnywhere.price,
                          cheapestShop |-> cheapestAnywhere.shop,
                          cheapestBrand |-> cheapestAnywhere.brand,
                          savings |-> savings]>>
                  ELSE <<>>
          ELSE <<>>
     ELSE <<>>

bySavingsDesc_asc(a, b) == a.savings - b.savings

bySavingsDesc(a, b) == b.savings - a.savings

getCheaperAlternatives(shopId, spbs, shopList, productList) ==
  LET productIds == productIdsAt(shopId, spbs)
      RECURSIVE forEach(_)
      forEach(ids) ==
        IF ids = <<>> THEN <<>>
        ELSE alternativesFor(Head(ids), shopId, spbs, shopList, productList)
               \o forEach(Tail(ids))
  IN sort(forEach(productIds), bySavingsDesc)

MathMin_first(prices) == Head(prices)

(* Math.min and Math.max of a spread array *)
RECURSIVE MathMin(_)
MathMin(prices) ==
  IF prices = <<>> THEN Infinity
  ELSE LET rest == MathMin(Tail(prices))
       IN IF Head(prices) < rest THEN Head(prices) ELSE rest

RECURSIVE MathMax(_)
MathMax(prices) ==
  IF prices = <<>> THEN 0 - Infinity
  ELSE LET rest == MathMax(Tail(prices))
       IN IF Head(prices) > rest THEN Head(prices) ELSE rest

getPriceRange(productId, spbs) ==
  LET allOptions == SelectSeq(spbs, LAMBDA spb : spb.productId = productId)
  IN IF Len(allOptions) = 0 THEN NULL
     ELSE LET prices == MapSeq(allOptions, LAMBDA spb : spb.price)
          IN [min |-> MathMin(prices), max |-> MathMax(prices)]

(* the counters after the forEach over the needed products, for one shop *)
(* the variant that counts a shop for every product whose cheapest price  *)
(* it matches                                                              *)
shopStats_countTies(shop, neededProducts, spbs, shopList) ==
  LET RECURSIVE forEach(_, _)
      forEach(acc, needed) ==
        IF needed = <<>> THEN acc
        ELSE LET product == Head(needed)
                 cheapestAtShop == getCheapestBrandAtShop(product.id, shop.id, spbs)
                 cheapestAnywhere == getCheapestOption(product.id, spbs, shopList)
                 isCheapestHere == IF cheapestAnywhere # NULL
                                   THEN cheapestAnywhere.price = cheapestAtShop.price
                                   ELSE FALSE
             IN IF cheapestAtShop # NULL
                THEN forEach([acc EXCEPT
                                !.productsAvailable = @ + 1,
                                !.estimatedTotal = @ + cheapestAtShop.price,
                                !.cheapestProducts = IF isCheapestHere THEN @ + 1 ELSE @],
                             Tail(needed))
                ELSE forEach(acc, Tail(needed))
  IN forEach([shop |-> shop, productsAvailable |-> 0, cheapestProducts |-> 0,
              estimatedTotal |-> 0], neededProducts)

shopStats(shop, neededProducts, spbs, shopList) ==
  LET RECURSIVE forEach(_, _)
      forEach(acc, needed) ==
        IF needed = <<>> THEN acc
        ELSE LET product == Head(needed)
                 cheapestAtShop == getCheapestBrandAtShop(product.id, shop.id, spbs)
                 cheapestAnywhere == getCheapestOption(product.id, spbs, shopList)
                 isCheapestHere == IF cheapestAnywhere # NULL
                                   THEN cheapestAnywhere.shop.id = shop.id
                                   ELSE FALSE
             IN IF cheapestAtShop # NULL
                THEN forEach([acc EXCEPT
                                !.productsAvailable = @ + 1,
                                !.estimatedTotal = @ + cheapestAtShop.price,
                                !.cheapestProducts = IF isCheapestHere THEN @ + 1 ELSE @],
                             Tail(needed))
                ELSE forEach(acc, Tail(needed))
  IN forEach([shop |-> shop, productsAvailable |-> 0, cheapestProducts |-> 0,
              estimatedTotal |-> 0], neededProducts)

byCoverage_catalogOrder(a, b) == 0

byCoverage_noTieBreak(a, b) == b.productsAvailable - a.productsAvailable

byCoverage(a, b) ==
  IF b.productsAvailable # a.productsAvailable
  THEN b.productsAvailable - a.productsAvailable
  ELSE b.cheapestProducts - a.cheapestProducts

getBestShopsForShoppingList(neededProducts, spbs, shopList) ==
  sort(SelectSeq(MapSeq(shopList, LAMBDA shop : shopStats(shop, neededProducts, spbs, shopList)),
                 LAMBDA item : item.productsAvailable > 0),
       byCoverage)

(***************************************************************************)
(* What a call leaves of its arguments.  Of the array methods the engine   *)
(* uses only sort changes the array it is called on; filter, map, find,    *)
(* reduce and forEach leave theirs as it is, and filter and map return a   *)
(* new array.                                                              *)
(***************************************************************************)
spbsAfterGetAllPricesForProduct_sortsArgument(productId, spbs) ==
  sort(spbs, byPriceAsc)

(* brands is sorted by price: the array sorted is the one filter returned, *)
(* not the records                                                         *)
spbsAfterGetAllPricesForProduct(productId, spbs) == spbs

(* the ranking is sorted: the array sorted is the one map and filter       *)
(* returned, not the shop catalog                                          *)
shopsAfterGetBestShopsForShoppingList(neededProducts, spbs, shopList) == shopList

(***************************************************************************)
(* priceHelper, simple variant: one price per record, no brands.  A        *)
(* ShopProduct has the fields id, productId, shopId and price of a         *)
(* ShopProductBrand.                                                       *)
(***************************************************************************)
(* a list item: productId is optional, and an empty productId is falsy *)
ListItems ==
  [quantity : Quantities] \cup [productId : ProductIds \cup {""}, quantity : Quantities]

hasProductId(item) == "productId" \in DOMAIN item /\ item.productId # ""

lineTotal_unitPrice(shopProduct, item) == shopProduct.price

lineTotal(shopProduct, item) == shopProduct.price * item.quantity

(* the body of the forEach callback: the counters after one item *)
countItem(acc, item, shopId, shopProducts) ==
  IF hasProductId(item)
  THEN LET shopProduct ==
             find(shopProducts,
                  LAMBDA sp : sp.productId = item.productId /\ sp.shopId = shopId)
       IN IF shopProduct # NULL
          THEN [acc EXCEPT !.total = @ + lineTotal(shopProduct, item),
                           !.itemsWithPrices = @ + 1]
          ELSE [acc EXCEPT !.itemsWithoutPrices = @ + 1]
  ELSE [acc EXCEPT !.itemsWithoutPrices = @ + 1]

calculateListTotalAtShop(listItems, shopId, shopProducts) ==
  LET RECURSIVE forEach(_, _)
      forEach(acc, rest) ==
        IF rest = <<>> THEN acc
        ELSE forEach(countItem(acc, Head(rest), shopId, shopProducts), Tail(rest))
  IN forEach([total |-> 0, itemsWithPrices |-> 0, itemsWithoutPrices |-> 0], listItems)

(***************************************************************************)
(* The collections the engine is called with, and the calls.               *)
(* getPriceComparison of the simple variant: the shop's record is the      *)
(* first record of the pair, and the flag compares shop ids                *)
getPriceComparisonSimple(productId, shopId, shopProducts, shopList) ==
  LET currentShopProduct ==
        find(shopProducts, LAMBDA sp : sp.productId = productId /\ sp.shopId = shopId)
      productPrices == SelectSeq(shopProducts, LAMBDA sp : sp.productId = productId)
  IN IF currentShopProduct = NULL THEN NULL
     ELSE IF Len(productPrices) = 0 THEN NULL
     ELSE LET cheapest == reduceCheapest(productPrices)
              cheapestShop == find(shopList, LAMBDA s : s.id = cheapest.shopId)
              savings == currentShopProduct.price - cheapest.price
          IN [currentPrice |-> currentShopProduct.price,
              cheapestPrice |-> cheapest.price,
              cheapestShopId |-> cheapest.shopId,
              cheapestShopName |-> shopNameOr(cheapestShop),
              savings |-> savings,
              savingsPercent |-> savingsPercentOf(savings, currentShopProduct.price),
              isCheapest |-> currentShopProduct.shopId = cheapest.shopId]

(* the body of the forEach callback of the simple variant: the entries it  *)
(* pushes for one record of the shop                                       *)
alternativesForSimple(sp, shopId, shopProducts, shopList, productList) ==
  LET comparison == getPriceComparisonSimple(sp.productId, shopId, shopProducts, shopList)
  IN IF comparison # NULL
     THEN IF ~comparison.isCheapest /\ comparison.savings > 0
          THEN LET product == find(productList, LAMBDA p : p.id = sp.productId)
                   cheapestShop ==
                     find(shopList, LAMBDA s : s.id = comparison.cheapestShopId)
               IN IF product # NULL /\ cheapestShop # NULL
                  THEN <<[product |-> product,
                          currentPrice |-> comparison.currentPrice,
                          cheapestPrice |-> comparison.cheapestPrice,
                          cheapestShop |-> cheapestShop,
                          savings |-> comparison.savings]>>
                  ELSE <<>>
          ELSE <<>>
     ELSE <<>>

getCheaperAlternativesSimple(shopId, shopProducts, shopList, productList) ==
  LET productsAtShop == SelectSeq(shopProducts, LAMBDA sp : sp.shopId = shopId)
      RECURSIVE forEach(_)
      forEach(sps) ==
        IF sps = <<>> THEN <<>>
        ELSE alternativesForSimple(Head(sps), shopId, shopProducts, shopList, productList)
               \o forEach(Tail(sps))
  IN sort(forEach(productsAtShop), bySavingsDesc)

(***************************************************************************)
NoCall == [op |-> "none", productId |-> "-", shopId |-> "-", needed |-> <<>>, ret |-> NULL]

CallGetCheapestBrandAtShop ==
  \E p \in ProductIds, s \in ShopIds :
    /\ last' = [op |-> "getCheapestBrandAtShop", productId |-> p, shopId |-> s,
                needed |-> <<>>,
                ret |-> getCheapestBrandAtShop(p, s, shopProductBrands)]
    /\ UNCHANGED <<shopProductBrands, shops, products, items, elsewhere>>

CallGetPriceComparison ==
  \E p \in ProductIds, s \in ShopIds :
    /\ last' = [op |-> "getPriceComparison", productId |-> p, shopId |-> s,
                needed |-> <<>>,
                ret |-> getPriceComparison(p, s, shopProductBrands, shops)]
    /\ UNCHANGED <<shopProductBrands, shops, products, items, elsewhere>>

CallGetCheapestOption ==
  \E p \in ProductIds :
    /\ last' = [op |-> "getCheapestOption", productId |-> p, shopId |-> "-",
                needed |-> <<>>,
                ret |-> getCheapestOption(p, shopProductBrands, shops)]
    /\ UNCHANGED <<shopProductBrands, shops, products, items, elsewhere>>

CallGetAllPricesForProduct ==
  \E p \in ProductIds :
    /\ last' = [op |-> "getAllPricesForProduct", productId |-> p, shopId |-> "-",
                needed |-> <<>>,
                ret |-> getAllPricesForProduct(p, shopProductBrands, shops)]
    /\ shopProductBrands' = spbsAfterGetAllPricesForProduct(p, shopProductBrands)
    /\ UNCHANGED <<shops, products, items, elsewhere>>

CallGetCheaperAlternatives ==
  \E s \in ShopIds :
    /\ last' = [op |-> "getCheaperAlternatives", productId |-> "-", shopId |-> s,
                needed |-> <<>>,
                ret |-> getCheaperAlternatives(s, shopProductBrands, shops, products)]
    /\ UNCHANGED <<shopProductBrands, shops, products, items, elsewhere>>

CallGetBestShopsForShoppingList ==
  \E needed \in ProductCatalogs :
    /\ last' = [op |-> "getBestShopsForShoppingList", productId |-> "-", shopId |-> "-",
                needed |-> needed,
                ret |-> getBestShopsForShoppingList(needed, shopProductBrands, shops)]
    /\ shops' = shopsAfterGetBestShopsForShoppingList(needed, shopProductBrands, shops)
    /\ UNCHANGED <<shopProductBrands, products, items, elsewhere>>

CallGetPriceRange ==
  \E p \in ProductIds :
    /\ last' = [op |-> "getPriceRange", productId |-> p, shopId |-> "-",
                needed |-> <<>>,
                ret |-> getPriceRange(p, shopProductBrands)]
    /\ UNCHANGED <<shopProductBrands, shops, products, items, elsewhere>>

CallCalculateListTotalAtShop ==
  \E s \in ShopIds :
    /\ last' = [op |-> "calculateListTotalAtShop", productId |-> "-", shopId |-> s,
                needed |-> <<>>,
                ret |-> calculateListTotalAtShop(items, s, shopProductBrands)]
    /\ UNCHANGED <<shopProductBrands, shops, products, items, elsewhere>>

AllProducts == <<Product("p1"), Product("p2")>>

AllShops == <<Shop("s1"), Shop("s2")>>

(* the single-product lookups, on records with ids of their own and any    *)
(* shop catalog                                                            *)
Init ==
  /\ \E k \in 0..MaxRecs : \E offers \in [1..k -> Offers(Prices)] :
       shopProductBrands = RecordsWithOwnIds(offers)
  /\ shops \in ShopCatalogs
  /\ products = AllProducts
  /\ items = <<>>
  /\ ElsewhereIdle
  /\ last = NoCall

Next ==
  \/ CallGetCheapestBrandAtShop
  \/ CallGetPriceComparison
  \/ CallGetCheapestOption

Spec == Init /\ [][Next]_vars

(* getPriceComparison on imported records, whose ids may repeat *)
InitIds ==
  /\ \E k \in 0..MaxFewRecs :
       \E ids \in [1..k -> RecordIds], offers \in [1..k -> Offers(Prices)] :
         shopProductBrands = ImportedRecords(ids, offers)
  /\ shops \in ShopCatalogs
  /\ products = AllProducts
  /\ items = <<>>
  /\ ElsewhereIdle
  /\ last = NoCall

NextIds == CallGetPriceComparison

SpecIds == InitIds /\ [][NextIds]_vars

(* getPriceComparison on imported records, whose prices may be negative *)
InitSigned ==
  /\ \E k \in 0..MaxRecs : \E offers \in [1..k -> Offers(SignedPrices)] :
       shopProductBrands = RecordsWithOwnIds(offers)
  /\ shops = AllShops
  /\ products = AllProducts
  /\ items = <<>>
  /\ ElsewhereIdle
  /\ last = NoCall

NextSigned == CallGetPriceComparison

SpecSigned == InitSigned /\ [][NextSigned]_vars

(* getPriceRange on imported records, whose prices may be negative *)
NextRange == CallGetPriceRange

SpecRange == InitSigned /\ [][NextRange]_vars

(* the catalog-wide operations, on records with ids of their own and any   *)
(* catalogs                                                                *)
InitCatalog ==
  /\ \E k \in 0..MaxFewRecs : \E offers \in [1..k -> Offers(Prices)] :
       shopProductBrands = RecordsWithOwnIds(offers)
  /\ shops \in ShopCatalogs
  /\ products \in ProductCatalogs
  /\ items = <<>>
  /\ ElsewhereIdle
  /\ last = NoCall

NextCatalog ==
  \/ CallGetCheapestOption
  \/ CallGetAllPricesForProduct
  \/ CallGetCheaperAlternatives
  \/ CallGetBestShopsForShoppingList

SpecCatalog == InitCatalog /\ [][NextCatalog]_vars

(* every operation of the brand variant, on records with ids of their own  *)
(* and any catalogs                                                        *)
NextFrame ==
  \/ CallGetCheapestBrandAtShop
  \/ CallGetPriceComparison
  \/ CallGetCheapestOption
  \/ CallGetAllPricesForProduct
  \/ CallGetCheaperAlternatives
  \/ CallGetPriceRange
  \/ CallGetBestShopsForShoppingList

SpecFrame == InitCatalog /\ [][NextFrame]_vars

(* getCheaperAlternatives on imported records, whose ids may repeat, and   *)
(* any catalogs                                                            *)
InitAltIds ==
  /\ \E k \in 0..MaxFewRecs :
       \E ids \in [1..k -> RecordIds], offers \in [1..k -> Offers(Prices)] :
         shopProductBrands = ImportedRecords(ids, offers)
  /\ shops \in ShopCatalogs
  /\ products \in ProductCatalogs
  /\ items = <<>>
  /\ ElsewhereIdle
  /\ last = NoCall

NextAltIds == CallGetCheaperAlternatives

SpecAltIds == InitAltIds /\ [][NextAltIds]_vars

(* getCheaperAlternatives on collections large enough to hold several      *)
(* alternatives with different savings                                     *)
InitSort ==
  /\ \E k \in 0..MaxAltRecs : \E offers \in [1..k -> Offers(SortPrices)] :
       shopProductBrands = RecordsWithOwnIds(offers)
  /\ shops = AllShops
  /\ products = AllProducts
  /\ items = <<>>
  /\ ElsewhereIdle
  /\ last = NoCall

NextSort == CallGetCheaperAlternatives

SpecSort == InitSort /\ [][NextSort]_vars

(* getPriceComparison on records priced in hundredths, at the prices 1.00  *)
(* and 1.20                                                                *)
ExamplePrices == {100, 120}

InitExample ==
  /\ \E k \in 0..MaxFewRecs : \E offers \in [1..k -> Offers(ExamplePrices)] :
       shopProductBrands = RecordsWithOwnIds(offers)
  /\ shops \in ShopCatalogs
  /\ products = AllProducts
  /\ items = <<>>
  /\ ElsewhereIdle
  /\ last = NoCall

NextExample == CallGetPriceComparison

SpecExample == InitExample /\ [][NextExample]_vars

(* calculateListTotalAtShop on the items of a shopping list and on records *)
(* that may hold several prices of a product at a shop                     *)
InitList ==
  /\ \E k \in 0..MaxFewRecs : \E offers \in [1..k -> Offers(Prices)] :
       shopProductBrands = RecordsWithOwnIds(offers)
  /\ shops = AllShops
  /\ products = AllProducts
  /\ items \in SeqsUpTo(ListItems, MaxItems)
  /\ ElsewhereIdle
  /\ last = NoCall

NextList == CallCalculateListTotalAtShop

SpecList == InitList /\ [][NextList]_vars

(* getBestShopsForShoppingList on three shops, so that a ranking has a     *)
(* first, a middle and a last place.  The catalog lists the shops in the   *)
(* order of their ids and may lack the last one; every other catalog of    *)
(* two or three shops is one of these with the shops renamed, and the      *)
(* records range over all shops.                                           *)
RankShopIds == ShopIds \cup {"s3"}

RankOffers == [productId : ProductIds, shopId : RankShopIds, price : Prices]

AllRankShops == <<Shop("s1"), Shop("s2"), Shop("s3")>>

RankCatalogs ==
  {SubSeq(AllRankShops, 1, n) : n \in (Len(AllRankShops) - 1)..Len(AllRankShops)}

InitRank ==
  /\ \E k \in 0..MaxRecs : \E offers \in [1..k -> RankOffers] :
       shopProductBrands = RecordsWithOwnIds(offers)
  /\ shops \in RankCatalogs
  /\ products = AllProducts
  /\ items = <<>>
  /\ ElsewhereIdle
  /\ last = NoCall

NextRank == CallGetBestShopsForShoppingList

SpecRank == InitRank /\ [][NextRank]_vars

(***************************************************************************)
(* The price records of the application state: the reducer cases that add  *)
(* and delete a record, and the screen that shows the prices of a product. *)
(***************************************************************************)
addShopProductBrand(spbs, payload) == Append(spbs, payload)

deleteShopProductBrand(spbs, id) == SelectSeq(spbs, LAMBDA spb : spb.id # id)

(* the screen computes the prices of its product on every render, and a    *)
(* dispatch renders it again                                               *)
render(spbs) ==
  IF last.op = "getAllPricesForProduct"
  THEN [last EXCEPT !.ret = getAllPricesForProduct(last.productId, spbs, shops)]
  ELSE last

(* ADD_SHOP_PRODUCT_BRAND with a payload whose id no record has, as its   *)
(* callers make it                                                         *)
AddShopProductBrand ==
  /\ Len(shopProductBrands) < MaxRecs
  /\ \E id \in 1..MaxRecs, offer \in Offers(Prices) :
       /\ \A i \in DOMAIN shopProductBrands : shopProductBrands[i].id # id
       /\ shopProductBrands' =
            addShopProductBrand(shopProductBrands, ShopProductBrand(id, offer))
  /\ last' = render(shopProductBrands')
  /\ UNCHANGED <<shops, products, items, elsewhere>>

DeleteShopProductBrand ==
  /\ \E i \in DOMAIN shopProductBrands :
       shopProductBrands' =
         deleteShopProductBrand(shopProductBrands, shopProductBrands[i].id)
  /\ last' = render(shopProductBrands')
  /\ UNCHANGED <<shops, products, items, elsewhere>>

(* the application starts without records; they are added and deleted one  *)
(* at a time while the prices of a product are on the screen               *)
InitStore ==
  /\ shopProductBrands = <<>>
  /\ shops = AllShops
  /\ products = AllProducts
  /\ items = <<>>
  /\ ElsewhereIdle
  /\ last = NoCall

NextStore ==
  \/ AddShopProductBrand
  \/ DeleteShopProductBrand
  \/ CallGetAllPricesForProduct

SpecStore == InitStore /\ [][NextStore]_vars

(***************************************************************************)
(* The two variants of the engine on one collection: a ShopProduct is a    *)
(* ShopProductBrand without its brand.  The collection holds at most one   *)
(* record for a product at a shop, as the simple variant's screens keep    *)
(* it.                                                                     *)
(***************************************************************************)
CallGetPriceComparisonSimple ==
  \E p \in ProductIds, s \in ShopIds :
    /\ last' = [op |-> "getPriceComparisonSimple", productId |-> p, shopId |-> s,
                needed |-> <<>>,
                ret |-> getPriceComparisonSimple(p, s, shopProductBrands, shops)]
    /\ UNCHANGED <<shopProductBrands, shops, products, items, elsewhere>>

CallGetCheaperAlternativesSimple ==
  \E s \in ShopIds :
    /\ last' = [op |-> "getCheaperAlternativesSimple", productId |-> "-", shopId |-> s,
                needed |-> <<>>,
                ret |-> getCheaperAlternativesSimple(s, shopProductBrands, shops, products)]
    /\ UNCHANGED <<shopProductBrands, shops, products, items, elsewhere>>

OnePerPair(offers) ==
  \A i, j \in DOMAIN offers :
    (offers[i].productId = offers[j].productId /\ offers[i].shopId = offers[j].shopId)
      => i = j

(* the catalogs in id order, complete or cut short: the records range over *)
(* every product and shop, so a catalog that lacks the last id stands for  *)
(* one that lacks any other                                                *)
Prefixes(seq) == {SubSeq(seq, 1, k) : k \in 0..Len(seq)}

InitVariants ==
  /\ \E k \in 0..Cardinality(ProductIds \X ShopIds) :
       \E offers \in [1..k -> Offers(SortPrices)] :
         /\ OnePerPair(offers)
         /\ shopProductBrands = RecordsWithOwnIds(offers)
  /\ shops \in Prefixes(AllShops)
  /\ products \in Prefixes(AllProducts)
  /\ items = <<>>
  /\ ElsewhereIdle
  /\ last = NoCall

NextVariants ==
  \/ CallGetPriceComparison
  \/ CallGetPriceComparisonSimple
  \/ CallGetCheaperAlternatives
  \/ CallGetCheaperAlternativesSimple

SpecVariants == InitVariants /\ [][NextVariants]_vars

(***************************************************************************)
(* The reducer of the application state (appReducer, brand variant).       *)
(* It is a pure function of the state and the action.  No case checks      *)
(* that an added id is new or that a record's product and shop exist.      *)
(***************************************************************************)
MaxHeld == 2

ListIds == {"l1", "l2"}

ScheduleIds == {"e1", "e2"}

ShoppingList(id) == [id |-> id]

Schedule(id) == [id |-> id]

(* a shop as the edit screen saves it after a change of its name           *)
EditedShop(id) == [id |-> id, name |-> "Penny"]

ShopPayloads == {Shop(id) : id \in ShopIds} \cup {EditedShop(id) : id \in ShopIds}

ProductPayloads == {Product(id) : id \in ProductIds}

ListPayloads == {ShoppingList(id) : id \in ListIds}

SchedulePayloads == {Schedule(id) : id \in ScheduleIds}

(* price records as payloads: the reducer reads id, productId and shopId   *)
RecordPayloads ==
  {ShopProductBrand(id, offer) : id \in RecordIds, offer \in Offers({MaxPrice})}

(* Partial<AppSettings>: any subset of the fields                          *)
SettingsPayloads ==
  {[currency |-> "USD"],
   [currency |-> "EUR", locationNotificationsEnabled |-> FALSE]}

initialState ==
  [shoppingLists |-> <<>>, shops |-> <<>>, schedules |-> <<>>,
   products |-> <<>>, shopProductBrands |-> <<>>,
   settings |-> defaultSettings]

(* the state the reducer is applied to                                     *)
AppState ==
  [shoppingLists |-> shoppingLists, shops |-> shops, schedules |-> schedules,
   products |-> products, shopProductBrands |-> shopProductBrands,
   settings |-> settings]

(* [...list, payload]                                                      *)
withAdded(list, payload) == Append(list, payload)

(* list.map(x => x.id === payload.id ? payload : x), with the variant that *)
(* adds the payload when no element has its id                             *)
withUpdated_upsert(list, payload) ==
  IF \E i \in DOMAIN list : list[i].id = payload.id
    THEN [i \in DOMAIN list |-> IF list[i].id = payload.id THEN payload ELSE list[i]]
    ELSE Append(list, payload)

withUpdated(list, payload) ==
  [i \in DOMAIN list |-> IF list[i].id = payload.id THEN payload ELSE list[i]]

(* list.filter(x => x.id !== id)                                           *)
withoutId(list, id) == SelectSeq(list, LAMBDA x : x.id # id)

(* shopProductBrands.filter(spb => spb.shopId !== id), with the variant    *)
(* that keeps the records of a deleted shop                                *)
withoutShop_keep(spbs, id) == spbs

withoutShop(spbs, id) == SelectSeq(spbs, LAMBDA spb : spb.shopId # id)

(* shopProductBrands.filter(spb => spb.productId !== id)                   *)
withoutProduct(spbs, id) == SelectSeq(spbs, LAMBDA spb : spb.productId # id)

(* {...a, ...b}: the fields of b over those of a                           *)
spread(a, b) ==
  [k \in DOMAIN a \cup DOMAIN b |-> IF k \in DOMAIN b THEN b[k] ELSE a[k]]

setState(payload) ==
  [spread(initialState, payload) EXCEPT
     !.settings = spread(defaultSettings, payload.settings)]

appReducer(state, action) ==
  CASE action.type = "SET_STATE" -> setState(action.payload)
    [] action.type = "ADD_LIST" ->
         [state EXCEPT !.shoppingLists = withAdded(@, action.payload)]
    [] action.type = "UPDATE_LIST" ->
         [state EXCEPT !.shoppingLists = withUpdated(@, action.payload)]
    [] action.type = "DELETE_LIST" ->
         [state EXCEPT !.shoppingLists = withoutId(@, action.payload)]
    [] action.type = "ADD_SHOP" ->
         [state EXCEPT !.shops = withAdded(@, action.payload)]
    [] action.type = "UPDATE_SHOP" ->
         [state EXCEPT !.shops = withUpdated(@, action.payload)]
    [] action.type = "DELETE_SHOP" ->
         [state EXCEPT !.shops = withoutId(@, action.payload),
                       !.shopProductBrands = withoutShop(@, action.payload)]
    [] action.type = "ADD_SCHEDULE" ->
         [state EXCEPT !.schedules = withAdded(@, action.payload)]
    [] action.type = "UPDATE_SCHEDULE" ->
         [state EXCEPT !.schedules = withUpdated(@, action.payload)]
    [] action.type = "DELETE_SCHEDULE" ->
         [state EXCEPT !.schedules = withoutId(@, action.payload)]
    [] action.type = "ADD_PRODUCT" ->
         [state EXCEPT !.products = withAdded(@, action.payload)]
    [] action.type = "UPDATE_PRODUCT" ->
         [state EXCEPT !.products = withUpdated(@, action.payload)]
    [] action.type = "DELETE_PRODUCT" ->
         [state EXCEPT !.products = withoutId(@, action.payload),
                       !.shopProductBrands = withoutProduct(@, action.payload)]
    [] action.type = "ADD_SHOP_PRODUCT_BRAND" ->
         [state EXCEPT !.shopProductBrands = addShopProductBrand(@, action.payload)]
    [] action.type = "UPDATE_SHOP_PRODUCT_BRAND" ->
         [state EXCEPT !.shopProductBrands = withUpdated(@, action.payload)]
    [] action.type = "DELETE_SHOP_PRODUCT_BRAND" ->
         [state EXCEPT !.shopProductBrands = deleteShopProductBrand(@, action.payload)]
    [] action.type = "DELETE_SHOP_PRODUCT_BRANDS_FOR_PRODUCT" ->
         [state EXCEPT !.shopProductBrands = withoutProduct(@, action.payload)]
    [] action.type = "UPDATE_SETTINGS" ->
         [state EXCEPT !.settings = spread(@, action.payload)]
    [] OTHER -> state

(* the collection an action type names, and whether the payload's id is    *)
(* the id of one of its elements                                           *)
NamedCollection(type) ==
  CASE type \in {"ADD_LIST", "UPDATE_LIST", "DELETE_LIST"} -> "shoppingLists"
    [] type \in {"ADD_SHOP", "UPDATE_SHOP", "DELETE_SHOP"} -> "shops"
    [] type \in {"ADD_SCHEDULE", "UPDATE_SCHEDULE", "DELETE_SCHEDULE"} -> "schedules"
    [] type \in {"ADD_PRODUCT", "UPDATE_PRODUCT", "DELETE_PRODUCT"} -> "products"
    [] type \in {"ADD_SHOP_PRODUCT_BRAND", "UPDATE_SHOP_PRODUCT_BRAND",
                 "DELETE_SHOP_PRODUCT_BRAND",
                 "DELETE_SHOP_PRODUCT_BRANDS_FOR_PRODUCT"} -> "shopProductBrands"
    [] type = "UPDATE_SETTINGS" -> "settings"
    [] OTHER -> "state"

(* The state becomes appReducer(state, action).  last keeps the action     *)
(* type, whether an element of the named collection had the id, and how    *)
(* many price records the action removed.                                  *)
Reduced(action, hit) ==
  LET next == appReducer(AppState, action)
  IN /\ shoppingLists' = next.shoppingLists
     /\ shops' = next.shops
     /\ schedules' = next.schedules
     /\ products' = next.products
     /\ shopProductBrands' = next.shopProductBrands
     /\ settings' = next.settings
     /\ last' = [op |-> action.type, hit |-> hit,
                 removed |-> Len(shopProductBrands) - Len(next.shopProductBrands)]

Dispatch(action, hit) ==
  /\ Reduced(action, hit)
  /\ UNCHANGED <<items, persistence, notifier>>

HasId(list, id) == \E i \in DOMAIN list : list[i].id = id

AddList ==
  \E payload \in ListPayloads :
    Dispatch([type |-> "ADD_LIST", payload |-> payload],
             HasId(shoppingLists, payload.id))

UpdateList ==
  \E payload \in ListPayloads :
    Dispatch([type |-> "UPDATE_LIST", payload |-> payload],
             HasId(shoppingLists, payload.id))

DeleteList ==
  \E id \in ListIds :
    Dispatch([type |-> "DELETE_LIST", payload |-> id],
             HasId(shoppingLists, id))

AddShop ==
  \E payload \in ShopPayloads :
    Dispatch([type |-> "ADD_SHOP", payload |-> payload],
             HasId(shops, payload.id))

UpdateShop ==
  \E payload \in ShopPayloads :
    Dispatch([type |-> "UPDATE_SHOP", payload |-> payload],
             HasId(shops, payload.id))

DeleteShop ==
  \E id \in ShopIds :
    Dispatch([type |-> "DELETE_SHOP", payload |-> id],
             HasId(shops, id))

AddSchedule ==
  \E payload \in SchedulePayloads :
    Dispatch([type |-> "ADD_SCHEDULE", payload |-> payload],
             HasId(schedules, payload.id))

UpdateSchedule ==
  \E payload \in SchedulePayloads :
    Dispatch([type |-> "UPDATE_SCHEDULE", payload |-> payload],
             HasId(schedules, payload.id))

DeleteSchedule ==
  \E id \in ScheduleIds :
    Dispatch([type |-> "DELETE_SCHEDULE", payload |-> id],
             HasId(schedules, id))

AddProduct ==
  \E payload \in ProductPayloads :
    Dispatch([type |-> "ADD_PRODUCT", payload |-> payload],
             HasId(products, payload.id))

UpdateProduct ==
  \E payload \in ProductPayloads :
    Dispatch([type |-> "UPDATE_PRODUCT", payload |-> payload],
             HasId(products, payload.id))

DeleteProduct ==
  \E id \in ProductIds :
    Dispatch([type |-> "DELETE_PRODUCT", payload |-> id],
             HasId(products, id))

AddPriceRecord ==
  \E payload \in RecordPayloads :
    Dispatch([type |-> "ADD_SHOP_PRODUCT_BRAND", payload |-> payload],
             HasId(shopProductBrands, payload.id))

UpdatePriceRecord ==
  \E payload \in RecordPayloads :
    Dispatch([type |-> "UPDATE_SHOP_PRODUCT_BRAND", payload |-> payload],
             HasId(shopProductBrands, payload.id))

DeletePriceRecord ==
  \E id \in RecordIds :
    Dispatch([type |-> "DELETE_SHOP_PRODUCT_BRAND", payload |-> id],
             HasId(shopProductBrands, id))

DeletePriceRecordsForProduct ==
  \E id \in ProductIds :
    Dispatch([type |-> "DELETE_SHOP_PRODUCT_BRANDS_FOR_PRODUCT", payload |-> id],
             \E i \in DOMAIN shopProductBrands : shopProductBrands[i].productId = id)

UpdateSettings ==
  \E payload \in SettingsPayloads :
    Dispatch([type |-> "UPDATE_SETTINGS", payload |-> payload], TRUE)

(* the number of entities a state holds                                    *)
Held(state) ==
  Len(state.shoppingLists) + Len(state.shops) + Len(state.schedules)
    + Len(state.products) + Len(state.shopProductBrands)

(* states handed to SET_STATE: what was saved, what an import built, or    *)
(* the empty state of "clear all data"                                     *)
SavedStates ==
  {initialState,
   [initialState EXCEPT !.shops = <<Shop("s1")>>,
                        !.settings = spread(defaultSettings, [currency |-> "USD"])],
   [initialState EXCEPT !.products = <<Product("p1")>>,
                        !.shoppingLists = <<ShoppingList("l1")>>],
   [initialState EXCEPT !.shops = <<Shop("s1")>>,
                        !.shopProductBrands =
                          <<ShopProductBrand(1, [productId |-> "p1", shopId |-> "s1",
                                                 price |-> MaxPrice])>>]}

SetState ==
  \E payload \in SavedStates :
    Dispatch([type |-> "SET_STATE", payload |-> payload], TRUE)

(* the application starts from initialState; the state holds at most       *)
(* MaxHeld entities                                                        *)
InitReducer ==
  /\ shopProductBrands = <<>>
  /\ shops = <<>>
  /\ products = <<>>
  /\ items = <<>>
  /\ ElsewhereIdle
  /\ last = NoCall

ReducerAction ==
  \/ SetState
  \/ AddList
  \/ UpdateList
  \/ DeleteList
  \/ AddShop
  \/ UpdateShop
  \/ DeleteShop
  \/ AddSchedule
  \/ UpdateSchedule
  \/ DeleteSchedule
  \/ AddProduct
  \/ UpdateProduct
  \/ DeleteProduct
  \/ AddPriceRecord
  \/ UpdatePriceRecord
  \/ DeletePriceRecord
  \/ DeletePriceRecordsForProduct
  \/ UpdateSettings

NextReducer == ReducerAction /\ Held(AppState') <= MaxHeld

SpecReducer == InitReducer /\ [][NextReducer]_vars

(***************************************************************************)
(* The reducer under the product screen's way of saving prices: handleSave *)
(* dispatches a price record for the product it has just saved and for a   *)
(* shop picked from state.shops.                                           *)
(***************************************************************************)
SaveNewPrice ==
  \E payload \in RecordPayloads :
    /\ HasId(products, payload.productId)
    /\ HasId(shops, payload.shopId)
    /\ Dispatch([type |-> "ADD_SHOP_PRODUCT_BRAND", payload |-> payload],
                HasId(shopProductBrands, payload.id))

SaveExistingPrice ==
  \E payload \in RecordPayloads :
    /\ HasId(products, payload.productId)
    /\ HasId(shops, payload.shopId)
    /\ Dispatch([type |-> "UPDATE_SHOP_PRODUCT_BRAND", payload |-> payload],
                HasId(shopProductBrands, payload.id))

RefsAction ==
  \/ AddShop
  \/ UpdateShop
  \/ DeleteShop
  \/ AddProduct
  \/ UpdateProduct
  \/ DeleteProduct
  \/ SaveNewPrice
  \/ SaveExistingPrice
  \/ DeletePriceRecord
  \/ DeletePriceRecordsForProduct

(* a price record needs a shop and a product: the state holds up to two    *)
(* entities more than MaxHeld                                              *)
NextRefs == RefsAction /\ Held(AppState') <= MaxHeld + 2

SpecRefs == InitReducer /\ [][NextRefs]_vars

(***************************************************************************)
(* Persistence at startup (AppProvider, StorageService).  On mount the     *)
(* load effect calls loadAppState, which issues AsyncStorage.getItem and   *)
(* awaits it, and then the save effect calls saveAppState(state) with the  *)
(* initial state, which issues AsyncStorage.setItem.  The save effect runs *)
(* again after every change of the state.  The code awaits neither request *)
(* before issuing the other and nothing in the repository orders the       *)
(* storage's handling of them: a request in flight is served at any time,  *)
(* in any order with the others.  JSON.stringify and JSON.parse give back  *)
(* the fields kept here (strings, numbers, booleans, arrays) as they were. *)
(***************************************************************************)
GetItem == [op |-> "getItem", value |-> <<>>]

SetItem(state) == [op |-> "setItem", value |-> <<state>>]

Unmounted == [pc |-> "unmounted", savedState |-> <<>>]

Awaiting == [pc |-> "awaiting", savedState |-> <<>>]

Resolved(blob) == [pc |-> "resolved", savedState |-> blob]

WithoutRequest(reqs, i) == SubSeq(reqs, 1, i - 1) \o SubSeq(reqs, i + 1, Len(reqs))

(* the requests the storage may serve next                                 *)
Servable(reqs) == DOMAIN reqs

(* first render: the load effect, then the save effect of the first state  *)
Mount ==
  /\ loader = Unmounted
  /\ loader' = Awaiting
  /\ requests' = requests \o <<GetItem, SetItem(AppState)>>
  /\ last' = [op |-> "mount", hit |-> FALSE, removed |-> 0]
  /\ UNCHANGED <<shopProductBrands, shops, products, items, shoppingLists,
                 schedules, settings, storage, notifier>>

(* AsyncStorage.getItem(STORAGE_KEY) reads the blob; the promise resolves  *)
ServeGetItem ==
  \E i \in Servable(requests) :
    /\ requests[i].op = "getItem"
    /\ loader' = Resolved(storage)
    /\ requests' = WithoutRequest(requests, i)
    /\ last' = [op |-> "getItem", hit |-> storage # <<>>, removed |-> 0]
    /\ UNCHANGED <<shopProductBrands, shops, products, items, shoppingLists,
                   schedules, settings, storage, notifier>>

(* AsyncStorage.getItem rejects: loadAppState catches and returns null     *)
FailGetItem ==
  \E i \in Servable(requests) :
    /\ requests[i].op = "getItem"
    /\ loader' = Resolved(<<>>)
    /\ requests' = WithoutRequest(requests, i)
    /\ last' = [op |-> "getItem failed", hit |-> storage # <<>>, removed |-> 0]
    /\ UNCHANGED <<shopProductBrands, shops, products, items, shoppingLists,
                   schedules, settings, storage, notifier>>

(* AsyncStorage.setItem rejects: saveAppState catches; the blob stays      *)
FailSetItem ==
  \E i \in Servable(requests) :
    /\ requests[i].op = "setItem"
    /\ requests' = WithoutRequest(requests, i)
    /\ last' = [op |-> "setItem failed", hit |-> storage # <<>>, removed |-> 0]
    /\ UNCHANGED <<shopProductBrands, shops, products, items, shoppingLists,
                   schedules, settings, storage, loader, notifier>>

(* AsyncStorage.setItem(STORAGE_KEY, jsonValue) replaces the blob          *)
ServeSetItem ==
  \E i \in Servable(requests) :
    /\ requests[i].op = "setItem"
    /\ storage' = requests[i].value
    /\ requests' = WithoutRequest(requests, i)
    /\ last' = [op |-> "setItem", hit |-> storage # <<>>, removed |-> 0]
    /\ UNCHANGED <<shopProductBrands, shops, products, items, shoppingLists,
                   schedules, settings, loader, notifier>>

(* loadData after its await: SET_STATE when a state was read, and the save *)
(* effect of the state it installs                                         *)
ResumeLoad ==
  /\ loader.pc = "resolved"
  /\ loader' = LoaderDone
  /\ IF loader.savedState # <<>>
       THEN /\ Reduced([type |-> "SET_STATE", payload |-> loader.savedState[1]], TRUE)
            /\ requests' = Append(requests, SetItem(AppState'))
       ELSE /\ last' = [op |-> "loadData", hit |-> FALSE, removed |-> 0]
            /\ UNCHANGED <<shopProductBrands, shops, products, shoppingLists,
                           schedules, settings, requests>>
  /\ UNCHANGED <<items, storage, notifier>>

(* what an earlier session may have left under STORAGE_KEY                 *)
PersistedStates ==
  {[initialState EXCEPT !.shops = shopList, !.products = productList,
                        !.settings = spread(defaultSettings, change)] :
     shopList \in Prefixes(AllShops), productList \in Prefixes(AllProducts),
     change \in SettingsPayloads}

InitStartup ==
  /\ shopProductBrands = <<>>
  /\ shops = <<>>
  /\ products = <<>>
  /\ items = <<>>
  /\ shoppingLists = <<>>
  /\ schedules = <<>>
  /\ settings = defaultSettings
  /\ storage \in {<<>>} \cup {<<state>> : state \in PersistedStates}
  /\ requests = <<>>
  /\ loader = Unmounted
  /\ lastNotifiedShops = [s \in ShopIds |-> 0]
  /\ notificationHistory = <<>>
  /\ now = 1
  /\ calls = [c \in Callers |-> IdleCall]
  /\ last = NoCall

NextStartup ==
  \/ Mount
  \/ ServeGetItem
  \/ FailGetItem
  \/ ServeSetItem
  \/ FailSetItem
  \/ ResumeLoad

(* the event loop runs every step that is due: the effects of the first    *)
(* render, the storage's answer to a request (a result or a rejection),    *)
(* the continuation of a resolved await                                    *)
SpecStartup ==
  /\ InitStartup
  /\ [][NextStartup]_vars
  /\ WF_vars(Mount)
  /\ WF_vars(ServeGetItem \/ FailGetItem)
  /\ WF_vars(ServeSetItem \/ FailSetItem)
  /\ WF_vars(ResumeLoad)

(***************************************************************************)
(* The notification service (NotificationService).  Its two module         *)
(* variables are shared by all calls.  JavaScript runs a call without      *)
(* interruption up to its next await: notifyNearbyShops checks the         *)
(* cooldown, creates the notification and, inside showLocalNotification,   *)
(* records it before the first await (notifee.displayNotification); other  *)
(* calls run while a call awaits.  Time is Date.now() in milliseconds and  *)
(* advances in steps of 15 minutes.                                        *)
(***************************************************************************)
MaxTicks == 4
MaxVisits == 2

NOTIFICATION_COOLDOWN == 30 * 60 * 1000

Tick == 15 * 60 * 1000

HistoryLimit == 50

(* lastNotifiedShops.get(shopId) is undefined or a time; !lastNotified     *)
(* holds of undefined and of 0                                             *)
shouldNotifyForShop_atLeast(shopId, map, t) ==
  LET lastNotified == map[shopId]
  IN IF lastNotified = 0 THEN TRUE
     ELSE t - lastNotified >= NOTIFICATION_COOLDOWN

shouldNotifyForShop(shopId, map, t) ==
  LET lastNotified == map[shopId]
  IN IF lastNotified = 0 THEN TRUE
     ELSE t - lastNotified > NOTIFICATION_COOLDOWN

recordNotification(shopId, map, t) == [map EXCEPT ![shopId] = t]

(* notificationHistory.unshift(notification), cut to the newest 50; of a   *)
(* notification the shop and the timestamp are kept                        *)
createShopNotification(shopId, history, t) ==
  LET unshifted == <<[shopId |-> shopId, timestamp |-> t]>> \o history
  IN IF Len(unshifted) > HistoryLimit
     THEN SubSeq(unshifted, 1, HistoryLimit)
     ELSE unshifted

(* the for loop of notifyNearbyShops from the shops still to visit up to   *)
(* its next await, or to its end                                           *)
RECURSIVE runToAwait(_, _, _, _)
runToAwait(rest, map, history, t) ==
  IF rest = <<>>
  THEN [call |-> IdleCall, map |-> map, history |-> history]
  ELSE IF shouldNotifyForShop(Head(rest), map, t)
       THEN [call |-> [pc |-> "displaying", rest |-> Tail(rest)],
             map |-> recordNotification(Head(rest), map, t),
             history |-> createShopNotification(Head(rest), history, t)]
       ELSE runToAwait(Tail(rest), map, history, t)

Ran(c, rest) ==
  LET after == runToAwait(rest, lastNotifiedShops, notificationHistory, now)
  IN /\ calls' = [calls EXCEPT ![c] = after.call]
     /\ lastNotifiedShops' = after.map
     /\ notificationHistory' = after.history
     /\ UNCHANGED <<shopProductBrands, shops, products, items, last, shoppingLists,
                    schedules, settings, persistence, now>>

(* a call of notifyNearbyShops with the shops in range, in any order and   *)
(* with repetitions                                                        *)
NotifyNearbyShops ==
  \E c \in Callers, shopsInRange \in SeqsUpTo(ShopIds, MaxVisits) :
    /\ calls[c].pc = "idle"
    /\ Ran(c, shopsInRange)

(* notifee.displayNotification settles (shown, or failed and caught) and   *)
(* the loop goes on                                                        *)
DisplaySettled ==
  \E c \in Callers :
    /\ calls[c].pc = "displaying"
    /\ Ran(c, calls[c].rest)

ClearNotificationHistory ==
  /\ notificationHistory' = <<>>
  /\ lastNotifiedShops' = [s \in ShopIds |-> 0]
  /\ UNCHANGED <<shopProductBrands, shops, products, items, last, shoppingLists,
                 schedules, settings, persistence, now, calls>>

TimePasses ==
  /\ now + Tick <= MaxTicks * Tick
  /\ now' = now + Tick
  /\ UNCHANGED <<shopProductBrands, shops, products, items, last, shoppingLists,
                 schedules, settings, persistence, lastNotifiedShops,
                 notificationHistory, calls>>

InitNotifier ==
  /\ shopProductBrands = <<>>
  /\ shops = AllShops
  /\ products = <<>>
  /\ items = <<>>
  /\ shoppingLists = <<>>
  /\ schedules = <<>>
  /\ settings = defaultSettings
  /\ storage = <<>>
  /\ requests = <<>>
  /\ loader = LoaderDone
  /\ lastNotifiedShops = [s \in ShopIds |-> 0]
  /\ notificationHistory = <<>>
  /\ now = Tick
  /\ calls = [c \in Callers |-> IdleCall]
  /\ last = NoCall

NextNotifier ==
  \/ NotifyNearbyShops
  \/ DisplaySettled
  \/ ClearNotificationHistory
  \/ TimePasses

SpecNotifier == InitNotifier /\ [][NextNotifier]_vars

(***************************************************************************)
(* Shop Mode (ShopModeScreen): the products of the shop with the screen's  *)
(* own better-price flag, next to the engine's getCheaperAlternatives.     *)
(***************************************************************************)
(* AppContext.getProductsForShop: the distinct products with a record at   *)
(* the shop, in record order, without those missing from the catalog       *)
getProductsForShop(shopId, spbs, productList) ==
  LET productIds == productIdsAt(shopId, spbs)
      entryOf(productId) ==
        [product |-> find(productList, LAMBDA p : p.id = productId),
         brands |-> SelectSeq(spbs, LAMBDA spb : spb.productId = productId
                                                  /\ spb.shopId = shopId)]
  IN SelectSeq([i \in DOMAIN productIds |-> entryOf(productIds[i])],
               LAMBDA item : item.product # NULL)

(* option?.price || cheapestHere: the fallback is taken for a missing      *)
(* option and for a price of 0, which is falsy                             *)
priceOr(option, fallback) ==
  IF option = NULL THEN fallback
  ELSE IF option.price = 0 THEN fallback ELSE option.price

(* the callback of rawProducts.map                                         *)
withWarning(item, spbs, shopList) ==
  LET cheapestHere == MathMin(MapSeq(item.brands, LAMBDA b : b.price))
      cheapestAnywhereOption == getCheapestOption(item.product.id, spbs, shopList)
      cheapestAnywhere == priceOr(cheapestAnywhereOption, cheapestHere)
  IN [product |-> item.product,
      brands |-> item.brands,
      cheapestHere |-> cheapestHere,
      cheapestAnywhere |-> cheapestAnywhere,
      hasBetterPrice |-> cheapestAnywhere < cheapestHere,
      savings |-> cheapestHere - cheapestAnywhere]

productsAtShop(shopId, spbs, shopList, productList) ==
  LET rawProducts == getProductsForShop(shopId, spbs, productList)
  IN [i \in DOMAIN rawProducts |-> withWarning(rawProducts[i], spbs, shopList)]

(* a render of the screen for a shop: both memoized values                 *)
RenderShopMode ==
  \E s \in ShopIds :
    /\ last' = [op |-> "ShopModeScreen", productId |-> "-", shopId |-> s,
                needed |-> <<>>,
                ret |-> [productsAtShop |->
                           productsAtShop(s, shopProductBrands, shops, products),
                         cheaperAlternatives |->
                           getCheaperAlternatives(s, shopProductBrands, shops, products)]]
    /\ UNCHANGED <<shopProductBrands, shops, products, items, elsewhere>>

NextShopMode == RenderShopMode

SpecShopMode == InitCatalog /\ [][NextShopMode]_vars

(***************************************************************************)
(* What the results are measured against: the records of a call, read      *)
(* directly from the collection.                                           *)
(***************************************************************************)
OfProduct(p) ==
  {i \in DOMAIN shopProductBrands : shopProductBrands[i].productId = p}

AtPair(p, s) ==
  {i \in OfProduct(p) : shopProductBrands[i].shopId = s}

PriceAt(i) == shopProductBrands[i].price

MinPriceOver(I) == CHOOSE m \in {PriceAt(i) : i \in I} : \A i \in I : m <= PriceAt(i)

FirstMinOver(I) ==
  CHOOSE i \in I : /\ PriceAt(i) = MinPriceOver(I)
                   /\ \A j \in I : PriceAt(j) = MinPriceOver(I) => i <= j

CatalogShopIds == {shops[i].id : i \in DOMAIN shops}

CatalogProductIds == {products[i].id : i \in DOMAIN products}

Compared == last.op = "getPriceComparison" /\ last.ret # NULL

(* C1: a result of getPriceComparison has isCheapest true exactly when the *)
(* cheapest record of the product at the shop and the first minimum-price  *)
(* record of the product over all shops carry the same record id; an equal *)
(* price alone does not set the flag.                                      *)
C1_IsCheapestIffSameRecordId ==
  Compared =>
    (last.ret.isCheapest <=>
       getCheapestBrandAtShop(last.productId, last.shopId, shopProductBrands).id
         = shopProductBrands[FirstMinOver(OfProduct(last.productId))].id)

(* the shop ties with the cheapest price and still is not flagged *)
C1_Witness ==
  /\ Compared
  /\ last.ret.currentPrice = last.ret.cheapestPrice
  /\ ~last.ret.isCheapest

(* C2: when no record matches both the product id and the shop id,         *)
(* getCheapestBrandAtShop and getPriceComparison both return null.         *)
C2_NoRecordGivesNull ==
  (/\ last.op \in {"getCheapestBrandAtShop", "getPriceComparison"}
   /\ AtPair(last.productId, last.shopId) = {})
    => last.ret = NULL

(* null although the product is sold elsewhere and the shop sells others *)
C2_Witness ==
  /\ last.op = "getPriceComparison"
  /\ AtPair(last.productId, last.shopId) = {}
  /\ OfProduct(last.productId) # {}
  /\ \E i \in DOMAIN shopProductBrands : shopProductBrands[i].shopId = last.shopId
  /\ last.ret = NULL

(* C7: a result of getPriceComparison carries the minimum price of the     *)
(* product at the shop, the minimum price of the product anywhere, the     *)
(* shop id of a record that has that minimum price, and their difference.  *)
C7_ComparisonFields ==
  Compared =>
    /\ last.ret.currentPrice = MinPriceOver(AtPair(last.productId, last.shopId))
    /\ last.ret.cheapestPrice = MinPriceOver(OfProduct(last.productId))
    /\ \E i \in OfProduct(last.productId) :
         /\ PriceAt(i) = last.ret.cheapestPrice
         /\ shopProductBrands[i].shopId = last.ret.cheapestShopId
    /\ last.ret.savings = last.ret.currentPrice - last.ret.cheapestPrice

(* the shop is dearer than the cheapest shop *)
C7_Witness ==
  /\ Compared
  /\ last.ret.savings > 0
  /\ last.ret.cheapestShopId # last.shopId

HasOption == last.op = "getCheapestOption" /\ OfProduct(last.productId) # {}

CheapestShopIdOf(p) == shopProductBrands[FirstMinOver(OfProduct(p))].shopId

(* the first minimum-price record of product p names a shop the catalog    *)
(* does not hold                                                           *)
CheapestIsOrphan(p) ==
  OfProduct(p) # {} /\ CheapestShopIdOf(p) \notin CatalogShopIds

(* C3 as stated: for every product with at least one record,               *)
(* getCheapestOption returns a result whose price is the minimum price     *)
(* over the records of the product.                                        *)
C3_AlwaysMinimum ==
  HasOption =>
    /\ last.ret # NULL
    /\ last.ret.price = MinPriceOver(OfProduct(last.productId))

(* C3 amended: for every product with at least one record whose first      *)
(* minimum-price record names a shop of the catalog, getCheapestOption     *)
(* returns a result whose price is the minimum price over the records of   *)
(* the product; when that record names no shop of the catalog it returns   *)
(* null.                                                                   *)
C3_MinimumWhenShopResolves ==
  HasOption =>
    IF CheapestIsOrphan(last.productId)
    THEN last.ret = NULL
    ELSE /\ last.ret # NULL
         /\ last.ret.price = MinPriceOver(OfProduct(last.productId))

(* the minimum is found behind a dearer first record *)
C3_Witness ==
  /\ HasOption
  /\ last.ret # NULL
  /\ last.ret.price < shopProductBrands[1].price
  /\ shopProductBrands[1].productId = last.productId

PercentIs(pct, savings, price) ==
  pct.den # 0 /\ pct.num * price = savings * 100 * pct.den

(* C6 as stated: savingsPercent is 0 when currentPrice is 0, and           *)
(* (savings / currentPrice) * 100 for every other currentPrice.            *)
C6_PercentUnlessZeroPrice ==
  Compared =>
    IF last.ret.currentPrice = 0
    THEN last.ret.savingsPercent = Zero
    ELSE PercentIs(last.ret.savingsPercent, last.ret.savings, last.ret.currentPrice)

(* C6 amended: savingsPercent is 0 when currentPrice is 0 or negative,     *)
(* whatever cheapestPrice is, and (savings / currentPrice) * 100 when      *)
(* currentPrice is positive.                                               *)
C6_PercentWhenPositivePrice ==
  Compared =>
    IF last.ret.currentPrice <= 0
    THEN last.ret.savingsPercent = Zero
    ELSE PercentIs(last.ret.savingsPercent, last.ret.savings, last.ret.currentPrice)

(* a free offering compared with a different cheapest price *)
C6_Witness ==
  /\ Compared
  /\ last.ret.currentPrice = 0
  /\ last.ret.cheapestPrice # 0
  /\ last.ret.savingsPercent = Zero

IsShopOrphan(spb) == spb.shopId \notin CatalogShopIds

IsProductOrphan(spb) == spb.productId \notin CatalogProductIds

WithoutOrphans ==
  SelectSeq(shopProductBrands, LAMBDA spb : ~IsShopOrphan(spb) /\ ~IsProductOrphan(spb))

WithoutShopOrphans == SelectSeq(shopProductBrands, LAMBDA spb : ~IsShopOrphan(spb))

WithoutOrphansOfCall ==
  IF last.op = "getCheaperAlternatives" THEN WithoutOrphans ELSE WithoutShopOrphans

(* the result of the last call, had it been made on the records spbs *)
SameCallOn(spbs) ==
  CASE last.op = "getCheapestOption" ->
         getCheapestOption(last.productId, spbs, shops)
    [] last.op = "getAllPricesForProduct" ->
         getAllPricesForProduct(last.productId, spbs, shops)
    [] last.op = "getCheaperAlternatives" ->
         getCheaperAlternatives(last.shopId, spbs, shops, products)
    [] last.op = "getBestShopsForShoppingList" ->
         getBestShopsForShoppingList(last.needed, spbs, shops)

OrphanSensitiveOps ==
  {"getCheapestOption", "getAllPricesForProduct", "getCheaperAlternatives",
   "getBestShopsForShoppingList"}

(* C5 as stated: getCheapestOption, getAllPricesForProduct,                *)
(* getCheaperAlternatives and getBestShopsForShoppingList return what they *)
(* return on the collection without the records whose shop or product is   *)
(* missing from its catalog.                                               *)
C5_OrphansAreSkipped ==
  last.op \in OrphanSensitiveOps => last.ret = SameCallOn(WithoutOrphans)

(* C5 amended: a record whose shop is missing from the shop catalog is     *)
(* skipped unless it is the first minimum-price record of its product.     *)
(* getAllPricesForProduct always returns what it returns without such      *)
(* records.  getCheapestOption returns null for a product whose first      *)
(* minimum-price record is such a record, and otherwise what it returns    *)
(* without them.  getBestShopsForShoppingList and, for a shop of the       *)
(* catalog, getCheaperAlternatives return what they return without them    *)
(* whenever no product's first minimum-price record is such a record;      *)
(* getCheaperAlternatives then also skips the records whose product is     *)
(* missing from the product catalog.                                       *)
C5_OrphansSkippedUnlessCheapest ==
  /\ last.op = "getAllPricesForProduct" => last.ret = SameCallOn(WithoutShopOrphans)
  /\ last.op = "getCheapestOption" =>
       IF CheapestIsOrphan(last.productId)
       THEN last.ret = NULL
       ELSE last.ret = SameCallOn(WithoutShopOrphans)
  /\ (/\ last.op = "getBestShopsForShoppingList"
      /\ \A p \in ProductIds : ~CheapestIsOrphan(p))
       => last.ret = SameCallOn(WithoutShopOrphans)
  /\ (/\ last.op = "getCheaperAlternatives"
      /\ last.shopId \in CatalogShopIds
      /\ \A p \in ProductIds : ~CheapestIsOrphan(p))
       => last.ret = SameCallOn(WithoutOrphans)

(* a dearer record of a missing shop is passed over for the cheapest one *)
C5_Witness ==
  /\ last.op = "getCheapestOption"
  /\ last.ret # NULL
  /\ \E i \in OfProduct(last.productId) : IsShopOrphan(shopProductBrands[i])

Alternatives == last.op = "getCheaperAlternatives"

Entries == {last.ret[i] : i \in DOMAIN last.ret}

CarriedAt(s) ==
  {shopProductBrands[i].productId :
     i \in {j \in DOMAIN shopProductBrands : shopProductBrands[j].shopId = s}}

(* C8: every entry of getCheaperAlternatives has savings above 0 and a     *)
(* cheapest shop other than the shop asked about; a product whose cheapest *)
(* price at the shop is its cheapest price anywhere has no entry.          *)
C8_OnlyStrictSavings ==
  Alternatives =>
    /\ \A e \in Entries :
         /\ e.savings > 0
         /\ e.cheapestShop.id # last.shopId
    /\ \A p \in CarriedAt(last.shopId) :
         MinPriceOver(AtPair(p, last.shopId)) = MinPriceOver(OfProduct(p))
           => ~\E e \in Entries : e.currentBrand.productId = p

(* another shop comes first at the same price, and the product is left out *)
C8_Witness ==
  /\ Alternatives
  /\ \E p \in CarriedAt(last.shopId) \cap CatalogProductIds :
       /\ ~CheapestIsOrphan(p)
       /\ CheapestShopIdOf(p) # last.shopId
       /\ MinPriceOver(AtPair(p, last.shopId)) = MinPriceOver(OfProduct(p))
       /\ ~\E e \in Entries : e.currentBrand.productId = p

(* the products getPriceComparison marks as dearer at shop s, with a       *)
(* product and a cheapest shop the catalogs hold                           *)
DearerAt(s) ==
  {p \in CarriedAt(s) :
     LET cmp == getPriceComparison(p, s, shopProductBrands, shops)
     IN /\ cmp # NULL
        /\ ~cmp.isCheapest
        /\ cmp.savings > 0
        /\ p \in CatalogProductIds
        /\ cmp.cheapestShopId \in CatalogShopIds}

OneEntryPerDearerProduct ==
  /\ \A i \in DOMAIN last.ret :
       /\ last.ret[i].product # NULL
       /\ last.ret[i].product.id = last.ret[i].currentBrand.productId
  /\ {last.ret[i].currentBrand.productId : i \in DOMAIN last.ret} = DearerAt(last.shopId)
  /\ \A i, j \in DOMAIN last.ret :
       last.ret[i].currentBrand.productId = last.ret[j].currentBrand.productId => i = j

UniqueRecordIds ==
  \A i, j \in DOMAIN shopProductBrands :
    shopProductBrands[i].id = shopProductBrands[j].id => i = j

C10_SortedBySavingsDescending ==
  Alternatives =>
    \A i \in 1..(Len(last.ret) - 1) : last.ret[i].savings >= last.ret[i + 1].savings

(* the larger saving is moved in front of the product met first *)
C10_Witness ==
  /\ Alternatives
  /\ Len(last.ret) = 2
  /\ last.ret[1].savings > last.ret[2].savings
  /\ productIdsAt(last.shopId, shopProductBrands)
       = <<last.ret[2].product.id, last.ret[1].product.id>>

Ranked == last.op = "getBestShopsForShoppingList"

(* the places of the needed list whose product has a record at shop s *)
AvailableAt(s) ==
  {i \in DOMAIN last.needed : AtPair(last.needed[i].id, s) # {}}

(* C11: getBestShopsForShoppingList returns no shop at which no needed     *)
(* product has a price record, and the first element of its result has a   *)
(* productsAvailable that is at least the productsAvailable of every later *)
(* element.                                                                *)
C11_NoEmptyShopAndBestFirst ==
  Ranked =>
    /\ \A i \in DOMAIN last.ret : AvailableAt(last.ret[i].shop.id) # {}
    /\ \A i \in DOMAIN last.ret :
         last.ret[1].productsAvailable >= last.ret[i].productsAvailable

(* a shop of the catalog is left out and the shop with the wider coverage  *)
(* is moved in front of shops that come before it in the catalog           *)
C11_Witness ==
  /\ Ranked
  /\ Len(last.ret) = 2
  /\ Len(shops) = 3
  /\ last.ret[1].shop = shops[3]
  /\ last.ret[1].productsAvailable > last.ret[2].productsAvailable

CatalogIndex(s) == CHOOSE i \in DOMAIN shops : shops[i].id = s

(* C12: the result of getBestShopsForShoppingList is in descending order   *)
(* of productsAvailable and, where productsAvailable is equal, in          *)
(* descending order of cheapestProducts; entries equal in both keep the    *)
(* order of the shop catalog, whatever their estimatedTotal.               *)
C12_SortedByCoverageThenCheapest ==
  Ranked =>
    \A i, j \in DOMAIN last.ret :
      i < j =>
        \/ last.ret[i].productsAvailable > last.ret[j].productsAvailable
        \/ /\ last.ret[i].productsAvailable = last.ret[j].productsAvailable
           /\ last.ret[i].cheapestProducts > last.ret[j].cheapestProducts
        \/ /\ last.ret[i].productsAvailable = last.ret[j].productsAvailable
           /\ last.ret[i].cheapestProducts = last.ret[j].cheapestProducts
           /\ CatalogIndex(last.ret[i].shop.id) < CatalogIndex(last.ret[j].shop.id)

(* the tie on productsAvailable is broken by cheapestProducts against the  *)
(* catalog order, and the dearer of two shops equal in both stays in front *)
C12_Witness ==
  /\ Ranked
  /\ Len(last.ret) = 3
  /\ last.ret[1].productsAvailable = last.ret[2].productsAvailable
  /\ last.ret[1].cheapestProducts > last.ret[2].cheapestProducts
  /\ CatalogIndex(last.ret[1].shop.id) > CatalogIndex(last.ret[2].shop.id)
  /\ last.ret[2].productsAvailable = last.ret[3].productsAvailable
  /\ last.ret[2].cheapestProducts = last.ret[3].cheapestProducts
  /\ last.ret[2].estimatedTotal > last.ret[3].estimatedTotal

(* the sum, over the places I of the needed list, of the minimum price of  *)
(* the product at shop s                                                   *)
RECURSIVE SumOfMinPricesAt(_, _)
SumOfMinPricesAt(s, I) ==
  IF I = {} THEN 0
  ELSE LET i == CHOOSE x \in I : TRUE
       IN MinPriceOver(AtPair(last.needed[i].id, s)) + SumOfMinPricesAt(s, I \ {i})

(* C13: for every shop in the result of getBestShopsForShoppingList,       *)
(* productsAvailable is the number of needed products with at least one    *)
(* price record at that shop, and estimatedTotal is the sum, over those    *)
(* products, of the minimum price of the product at that shop.             *)
C13_AvailableCountAndTotal ==
  Ranked =>
    \A i \in DOMAIN last.ret :
      LET s == last.ret[i].shop.id
      IN /\ last.ret[i].productsAvailable = Cardinality(AvailableAt(s))
         /\ last.ret[i].estimatedTotal = SumOfMinPricesAt(s, AvailableAt(s))

(* a shop with both needed products, one of them at two prices of which    *)
(* the dearer comes first, and a record of the list's product left out of  *)
(* the total                                                               *)
C13_Witness ==
  /\ Ranked
  /\ \E i \in DOMAIN last.ret :
       /\ last.ret[i].productsAvailable = 2
       /\ last.ret[i].estimatedTotal = 1
       /\ \E p \in ProductIds :
            LET I == AtPair(p, last.ret[i].shop.id)
            IN /\ Cardinality(I) = 2
               /\ PriceAt(FirstMinOver(I)) < PriceAt(CHOOSE j \in I : j # FirstMinOver(I))
               /\ FirstMinOver(I) > (CHOOSE j \in I : j # FirstMinOver(I))

(* the places of the needed list whose product has a record at shop s and  *)
(* whose first minimum-price record over all shops is a record of shop s   *)
CheapestAt(s) ==
  {i \in AvailableAt(s) :
     /\ ~CheapestIsOrphan(last.needed[i].id)
     /\ CheapestShopIdOf(last.needed[i].id) = s}

(* C14: for every shop in the result of getBestShopsForShoppingList,       *)
(* cheapestProducts is the number of needed products that are available at *)
(* that shop and for which getCheapestOption resolves to that shop.        *)
C14_CheapestCount ==
  Ranked =>
    \A i \in DOMAIN last.ret :
      last.ret[i].cheapestProducts = Cardinality(CheapestAt(last.ret[i].shop.id))

(* a shop is counted for one product and not for another whose cheapest    *)
(* price it matches, because a shop met earlier has the same price         *)
C14_Witness ==
  /\ Ranked
  /\ \E i \in DOMAIN last.ret :
       LET s == last.ret[i].shop.id
       IN /\ last.ret[i].cheapestProducts = 1
          /\ \E k \in AvailableAt(s) \ CheapestAt(s) :
               MinPriceOver(AtPair(last.needed[k].id, s))
                 = MinPriceOver(OfProduct(last.needed[k].id))

AllPrices == last.op = "getAllPricesForProduct"

(* C15: the entries of getAllPricesForProduct carry the minimum price of   *)
(* the product at their shop and are in non-decreasing order of it; this   *)
(* holds of the result on the screen after every record added or deleted,  *)
(* so a shop whose minimum price has changed stands where its new minimum  *)
(* price puts it.                                                          *)
C15_SortedByCurrentMinimum ==
  AllPrices =>
    /\ \A i \in DOMAIN last.ret :
         last.ret[i].cheapestPrice
           = MinPriceOver(AtPair(last.productId, last.ret[i].shop.id))
    /\ \A i \in 1..(Len(last.ret) - 1) :
         last.ret[i].cheapestPrice <= last.ret[i + 1].cheapestPrice

(* the newest record is a cheaper record of a shop that was listed second  *)
(* without it, and the shop is now listed first at the new price           *)
C15_Witness ==
  /\ AllPrices
  /\ Len(shopProductBrands) > 0
  /\ LET n == Len(shopProductBrands)
         newest == shopProductBrands[n]
         before == getAllPricesForProduct(last.productId,
                                          SubSeq(shopProductBrands, 1, n - 1), shops)
     IN /\ newest.productId = last.productId
        /\ Len(before) = 2
        /\ before[2].shop.id = newest.shopId
        /\ Len(last.ret) = 2
        /\ last.ret[1].shop.id = newest.shopId
        /\ last.ret[1].cheapestPrice = newest.price

FirstIndexAt(p, s) == CHOOSE i \in AtPair(p, s) : \A j \in AtPair(p, s) : i <= j

(* C16: getAllPricesForProduct returns at most one entry per shop; the     *)
(* brands of an entry are exactly the records of the product at its shop,  *)
(* in ascending order of price, and its cheapestPrice is the price of the  *)
(* first of them; entries with equal cheapestPrice are in the order in     *)
(* which their shops first appear in the record collection.                *)
C16_OneGroupPerShop ==
  AllPrices =>
    /\ \A i, j \in DOMAIN last.ret :
         last.ret[i].shop.id = last.ret[j].shop.id => i = j
    /\ \A i \in DOMAIN last.ret :
         LET brands == last.ret[i].brands
             I == AtPair(last.productId, last.ret[i].shop.id)
         IN /\ Len(brands) = Cardinality(I)
            /\ {brands[k] : k \in DOMAIN brands} = {shopProductBrands[k] : k \in I}
            /\ \A k \in 1..(Len(brands) - 1) : brands[k].price <= brands[k + 1].price
            /\ last.ret[i].cheapestPrice = brands[1].price
    /\ \A i, j \in DOMAIN last.ret :
         (i < j /\ last.ret[i].cheapestPrice = last.ret[j].cheapestPrice)
           => FirstIndexAt(last.productId, last.ret[i].shop.id)
                < FirstIndexAt(last.productId, last.ret[j].shop.id)

(* two shops at the same cheapest price listed in record order against the *)
(* catalog order, the first with two brands whose order the sort reversed  *)
C16_Witness ==
  /\ AllPrices
  /\ Len(last.ret) = 2
  /\ last.ret[1].cheapestPrice = last.ret[2].cheapestPrice
  /\ last.ret[1].shop = shops[2]
  /\ Len(last.ret[1].brands) = 2
  /\ last.ret[1].brands[1].price < last.ret[1].brands[2].price
  /\ last.ret[1].brands
       # brandsAtShop(last.productId, last.ret[1].shop.id, shopProductBrands)

MaxPriceOver(I) == CHOOSE m \in {PriceAt(i) : i \in I} : \A i \in I : m >= PriceAt(i)

(* C17: getPriceRange returns null when no record matches the product;     *)
(* otherwise min and max are the minimum and the maximum price over all    *)
(* records of the product, whatever their shops, so min <= max, and both   *)
(* are the price of the record when exactly one record matches.            *)
C17_RangeIsMinAndMax ==
  last.op = "getPriceRange" =>
    LET I == OfProduct(last.productId)
    IN IF I = {} THEN last.ret = NULL
       ELSE /\ last.ret # NULL
            /\ last.ret.min = MinPriceOver(I)
            /\ last.ret.max = MaxPriceOver(I)
            /\ last.ret.min <= last.ret.max
            /\ Cardinality(I) = 1 =>
                 \A i \in I : last.ret.min = PriceAt(i) /\ last.ret.max = PriceAt(i)

(* the range spans two records of one shop, the dearer of which comes      *)
(* first, and another shop lies inside it                                  *)
C17_Witness ==
  /\ last.op = "getPriceRange"
  /\ last.ret # NULL
  /\ last.ret.min < last.ret.max
  /\ \E i, j, k \in OfProduct(last.productId) :
       /\ i < j
       /\ shopProductBrands[i].shopId = shopProductBrands[j].shopId
       /\ shopProductBrands[k].shopId # shopProductBrands[i].shopId
       /\ PriceAt(i) = last.ret.max
       /\ PriceAt(j) = last.ret.min
       /\ PriceAt(j) < PriceAt(k) /\ PriceAt(k) < PriceAt(i)

Totalled == last.op = "calculateListTotalAtShop"

(* the places of the item list whose item names a product with a record at *)
(* the shop of the call                                                    *)
PricedItems ==
  {i \in DOMAIN items :
     /\ "productId" \in DOMAIN items[i]
     /\ AtPair(items[i].productId, last.shopId) # {}}

(* the sum over the places I of price times quantity, the price being that *)
(* of the first record of the product at the shop                          *)
RECURSIVE SumOfLines(_)
SumOfLines(I) ==
  IF I = {} THEN 0
  ELSE LET i == CHOOSE x \in I : TRUE
       IN PriceAt(FirstIndexAt(items[i].productId, last.shopId))
            * items[i].quantity
          + SumOfLines(I \ {i})

(* C18: calculateListTotalAtShop returns as total the sum of price times   *)
(* quantity over the items whose productId has a price record at the shop, *)
(* the price being that of the first such record; itemsWithPrices counts   *)
(* those items, itemsWithoutPrices counts all others, and the two counts   *)
(* add up to the number of items.                                          *)
C18_TotalAndCounts ==
  Totalled =>
    /\ last.ret.total = SumOfLines(PricedItems)
    /\ last.ret.itemsWithPrices = Cardinality(PricedItems)
    /\ last.ret.itemsWithoutPrices = Len(items) - Cardinality(PricedItems)
    /\ last.ret.itemsWithPrices + last.ret.itemsWithoutPrices = Len(items)

(* two of a product priced at the shop, next to an item whose product is   *)
(* priced at the other shop only                                           *)
C18_Witness ==
  /\ Totalled
  /\ Len(items) = 2
  /\ last.ret.itemsWithPrices = 1
  /\ last.ret.itemsWithoutPrices = 1
  /\ last.ret.total = 2
  /\ \E i \in DOMAIN items \ PricedItems :
       /\ "productId" \in DOMAIN items[i]
       /\ OfProduct(items[i].productId) # {}

(* the records (p1, s1, 1.20) and (p1, s2, 1.00), in hundredths *)
ExampleRecords ==
  RecordsWithOwnIds(<<[productId |-> "p1", shopId |-> "s1", price |-> 120],
                      [productId |-> "p1", shopId |-> "s2", price |-> 100]>>)

IsExampleCall ==
  /\ shopProductBrands = ExampleRecords
  /\ shops = AllShops
  /\ last.op = "getPriceComparison"
  /\ last.productId = "p1"
  /\ last.shopId = "s1"

(* pct, rounded to two decimals, is hundredths / 100 *)
RoundsTo(pct, hundredths) ==
  /\ pct.den > 0
  /\ (hundredths * 10 - 5) * pct.den <= pct.num * 1000
  /\ pct.num * 1000 < (hundredths * 10 + 5) * pct.den

(* C19: with the shops s1 (Aldi) and s2 (Lidl) and the records (p1, s1,    *)
(* 1.20) and (p1, s2, 1.00), getPriceComparison of p1 at s1 returns        *)
(* currentPrice 1.20, cheapestPrice 1.00, cheapestShopId s2, savings 0.20, *)
(* savingsPercent 16.67 to two decimals and isCheapest false.              *)
C19_Example ==
  IsExampleCall =>
    /\ last.ret # NULL
    /\ last.ret.currentPrice = 120
    /\ last.ret.cheapestPrice = 100
    /\ last.ret.cheapestShopId = "s2"
    /\ last.ret.savings = 20
    /\ RoundsTo(last.ret.savingsPercent, 1667)
    /\ last.ret.isCheapest = FALSE

(* the call of the example has been made and has returned a comparison *)
C19_Witness ==
  /\ IsExampleCall
  /\ last.ret # NULL
  /\ last.ret.cheapestShopName = "Lidl"

EngineOps ==
  {"getCheapestBrandAtShop", "getPriceComparison", "getCheapestOption",
   "getAllPricesForProduct", "getCheaperAlternatives", "getPriceRange",
   "getBestShopsForShoppingList"}

UniqueIds(list) == \A i, j \in DOMAIN list : list[i].id = list[j].id => i = j

(* C21: after any sequence of reducer actions from the empty initial state *)
(* no two products of the product catalog share an id and no two shops of  *)
(* the shop catalog share an id.  The reducer appends the payload of       *)
(* ADD_PRODUCT and ADD_SHOP without looking at the ids already held, so    *)
(* the statement does not hold of it.                                      *)
C21_CatalogIdsUnique == UniqueIds(products) /\ UniqueIds(shops)

(* the shops at which a comparison of product p comes back flagged         *)
FlaggedShops(p) ==
  {s \in ShopIds :
     LET r == getPriceComparison(p, s, shopProductBrands, shops)
     IN r # NULL /\ r.isCheapest}

(* C22: with unique record ids, exactly one shop is flagged isCheapest for *)
(* a product that has a record: the shop of the first minimum-price record *)
(* in collection order.  A second shop that ties at that price is not      *)
(* flagged.                                                                *)
C22_ExactlyOneShopFlagged ==
  (UniqueRecordIds /\ Compared) =>
    /\ FlaggedShops(last.productId) =
         {shopProductBrands[FirstMinOver(OfProduct(last.productId))].shopId}
    /\ last.ret.isCheapest <=> last.shopId \in FlaggedShops(last.productId)

(* two shops tie at the cheapest price; the call for the later one is not  *)
(* flagged                                                                 *)
C22_Witness ==
  /\ UniqueRecordIds
  /\ Compared
  /\ \E i, j \in OfProduct(last.productId) :
       /\ i < j
       /\ shopProductBrands[i].shopId # shopProductBrands[j].shopId
       /\ PriceAt(i) = MinPriceOver(OfProduct(last.productId))
       /\ PriceAt(j) = PriceAt(i)
       /\ last.shopId = shopProductBrands[j].shopId
  /\ ~last.ret.isCheapest

(* an entry of getCheaperAlternatives without its brands                   *)
WithoutBrands(entries) ==
  [i \in DOMAIN entries |->
     [product |-> entries[i].product, currentPrice |-> entries[i].currentPrice,
      cheapestPrice |-> entries[i].cheapestPrice,
      cheapestShop |-> entries[i].cheapestShop, savings |-> entries[i].savings]]

(* C23: on a collection with at most one record for a product at a shop    *)
(* and unique record ids the simple variant and the brand variant agree:   *)
(* getPriceComparison returns the same result or both return null, and     *)
(* getCheaperAlternatives returns the same products, prices, cheapest      *)
(* shops and savings in the same order.                                    *)
C23_VariantsAgree ==
  (OnePerPair(shopProductBrands) /\ UniqueRecordIds) =>
    /\ last.op \in {"getPriceComparison", "getPriceComparisonSimple"} =>
         /\ last.ret = getPriceComparison(last.productId, last.shopId,
                                          shopProductBrands, shops)
         /\ last.ret = getPriceComparisonSimple(last.productId, last.shopId,
                                                shopProductBrands, shops)
    /\ last.op \in {"getCheaperAlternatives", "getCheaperAlternativesSimple"} =>
         /\ WithoutBrands(last.ret) =
              WithoutBrands(getCheaperAlternatives(last.shopId, shopProductBrands,
                                                   shops, products))
         /\ WithoutBrands(last.ret) =
              getCheaperAlternativesSimple(last.shopId, shopProductBrands,
                                           shops, products)

(* the simple variant lists two products of a shop, the larger saving      *)
(* first although its record comes later                                   *)
C23_Witness ==
  /\ last.op = "getCheaperAlternativesSimple"
  /\ Len(last.ret) = 2
  /\ last.ret[1].savings > last.ret[2].savings
  /\ \E i, j \in DOMAIN shopProductBrands :
       /\ i < j
       /\ shopProductBrands[i].shopId = last.shopId
       /\ shopProductBrands[j].shopId = last.shopId
       /\ shopProductBrands[j].productId = last.ret[1].product.id

NonNegativePrices == \A i \in DOMAIN shopProductBrands : PriceAt(i) >= 0

(* a percentage kept as a fraction lies between 0 and 100                  *)
PercentInRange(pct) == pct.den > 0 /\ 0 <= pct.num /\ pct.num <= 100 * pct.den

(* C24 as stated: every result of getPriceComparison has cheapestPrice <=  *)
(* currentPrice, savings >= 0, a savingsPercent between 0 and 100 when     *)
(* prices are non-negative, and savings = 0 whenever isCheapest is true.   *)
(* Two records that share an id and differ in price break the last part.   *)
C24_BoundsAndCheapestSavesNothing ==
  Compared =>
    /\ last.ret.cheapestPrice <= last.ret.currentPrice
    /\ last.ret.savings >= 0
    /\ NonNegativePrices => PercentInRange(last.ret.savingsPercent)
    /\ last.ret.isCheapest => last.ret.savings = 0

(* C24, amended: the bounds hold of every result; isCheapest implies       *)
(* savings = 0 when no two records share an id.                            *)
C24_BoundsAndCheapestSavesNothingUniqueIds ==
  Compared =>
    /\ last.ret.cheapestPrice <= last.ret.currentPrice
    /\ last.ret.savings = last.ret.currentPrice - last.ret.cheapestPrice
    /\ last.ret.savings >= 0
    /\ NonNegativePrices => PercentInRange(last.ret.savingsPercent)
    /\ (UniqueRecordIds /\ last.ret.isCheapest) => last.ret.savings = 0

(* with unique ids: a flagged result for a product that has a dearer       *)
(* record elsewhere                                                        *)
C24_Witness ==
  /\ Compared
  /\ UniqueRecordIds
  /\ last.ret.isCheapest
  /\ last.ret.savings = 0
  /\ \E i \in OfProduct(last.productId) : PriceAt(i) > last.ret.currentPrice

RECURSIVE SumOfCheapestProducts(_)
SumOfCheapestProducts(entries) ==
  IF entries = <<>> THEN 0
  ELSE Head(entries).cheapestProducts + SumOfCheapestProducts(Tail(entries))

(* the entries of the result whose shop has product p and is the shop of   *)
(* its cheapest option                                                     *)
CountedFor(p) ==
  {i \in DOMAIN last.ret :
     /\ getCheapestBrandAtShop(p, last.ret[i].shop.id, shopProductBrands) # NULL
     /\ LET cheapestAnywhere == getCheapestOption(p, shopProductBrands, shops)
        IN IF cheapestAnywhere = NULL THEN FALSE
           ELSE cheapestAnywhere.shop.id = last.ret[i].shop.id}

(* C25: for distinct needed products and unique shop ids, every entry of   *)
(* getBestShopsForShoppingList has 1 <= productsAvailable <= number of     *)
(* needed products and 0 <= cheapestProducts <= productsAvailable; a       *)
(* needed product is counted in cheapestProducts of at most one shop, and  *)
(* the cheapestProducts of the result sum to at most the number of needed  *)
(* products.                                                               *)
C25_CountsWithinNeeded ==
  (Ranked /\ UniqueIds(last.needed) /\ UniqueIds(shops)) =>
    /\ \A i \in DOMAIN last.ret :
         /\ 1 <= last.ret[i].productsAvailable
         /\ last.ret[i].productsAvailable <= Len(last.needed)
         /\ 0 <= last.ret[i].cheapestProducts
         /\ last.ret[i].cheapestProducts <= last.ret[i].productsAvailable
         /\ last.ret[i].cheapestProducts =
              Cardinality({k \in DOMAIN last.needed : i \in CountedFor(last.needed[k].id)})
    /\ \A k \in DOMAIN last.needed : Cardinality(CountedFor(last.needed[k].id)) <= 1
    /\ SumOfCheapestProducts(last.ret) <= Len(last.needed)

(* two shops tie at the cheapest price of a needed product and only one of *)
(* them counts it; both needed products are counted                        *)
C25_Witness ==
  /\ Ranked
  /\ Len(last.needed) = 2
  /\ Len(last.ret) >= 2
  /\ SumOfCheapestProducts(last.ret) = 2
  /\ \E k \in DOMAIN last.needed, i, j \in DOMAIN last.ret :
       /\ i # j
       /\ i \in CountedFor(last.needed[k].id)
       /\ j \notin CountedFor(last.needed[k].id)
       /\ AtPair(last.needed[k].id, last.ret[j].shop.id) # {}
       /\ MinPriceOver(AtPair(last.needed[k].id, last.ret[j].shop.id))
            = MinPriceOver(OfProduct(last.needed[k].id))

(* C26: when every price record is dispatched for a product and a shop of  *)
(* the state, then after any sequence of reducer actions other than        *)
(* SET_STATE every price record refers to a product of the product catalog *)
(* and a shop of the shop catalog: DELETE_SHOP and DELETE_PRODUCT remove   *)
(* the records of what they delete.                                        *)
C26_RecordsReferToCatalogs ==
  \A i \in DOMAIN shopProductBrands :
    /\ shopProductBrands[i].productId \in CatalogProductIds
    /\ shopProductBrands[i].shopId \in CatalogShopIds

(* a shop was deleted and a price record went with it                      *)
C26_Witness ==
  /\ last.op = "DELETE_SHOP"
  /\ last.hit
  /\ last.removed > 0
  /\ products # <<>>

(* C27: a state persisted by an earlier session is not lost at startup: in *)
(* every interleaving of the mount-time load with the save effect, which   *)
(* starts by saving the empty initial state, the stored blob and the state *)
(* in memory eventually both equal the state that was in storage before    *)
(* the application started.  The save of the initial state overwrites the  *)
(* blob whether or not the load has read it, so the statement does not     *)
(* hold.                                                                   *)
C27_PersistedStateRestored ==
  \A state \in PersistedStates :
    (loader = Unmounted /\ storage = <<state>>)
      ~> (storage = <<state>> /\ AppState = state)

(* C28: in every interleaving of notifyNearbyShops calls, a list naming a  *)
(* shop twice included, a shop that has been notified is not notified      *)
(* again until more than NOTIFICATION_COOLDOWN has passed since its last   *)
(* notification, unless clearNotificationHistory ran in between.  The      *)
(* history holds the notifications since the last clear, newest first, and *)
(* the map holds the time of the newest notification of each shop.         *)
C28_CooldownBetweenNotifications ==
  /\ \A i, j \in DOMAIN notificationHistory :
       (i < j /\ notificationHistory[i].shopId = notificationHistory[j].shopId) =>
         notificationHistory[i].timestamp - notificationHistory[j].timestamp
           > NOTIFICATION_COOLDOWN
  /\ \A i \in DOMAIN notificationHistory :
       /\ lastNotifiedShops[notificationHistory[i].shopId]
            >= notificationHistory[i].timestamp
       /\ notificationHistory[i].timestamp <= now

(* a shop notified twice since the last clear while another call, which    *)
(* named it too, is still awaiting                                         *)
C28_Witness ==
  /\ \E i, j \in DOMAIN notificationHistory :
       /\ i < j
       /\ notificationHistory[i].shopId = notificationHistory[j].shopId
  /\ \E c \in Callers : calls[c].pc = "displaying" /\ calls[c].rest # <<>>

ShopModeShown == last.op = "ShopModeScreen"

(* C29: in Shop Mode, a product listed for the shop has hasBetterPrice     *)
(* true exactly when getCheaperAlternatives has an entry for it, for every *)
(* collection with non-negative prices, 0 included.  The screen takes a    *)
(* cheapest price of 0 for a missing one, so the statement does not hold.  *)
C29_WarningIffAlternative ==
  ShopModeShown =>
    \A i \in DOMAIN last.ret.productsAtShop :
      last.ret.productsAtShop[i].hasBetterPrice <=>
        \E j \in DOMAIN last.ret.cheaperAlternatives :
          last.ret.cheaperAlternatives[j].product.id
            = last.ret.productsAtShop[i].product.id

Fields ==
  {"shoppingLists", "shops", "schedules", "products", "shopProductBrands", "settings"}

ReducerOps ==
  {"SET_STATE", "ADD_LIST", "UPDATE_LIST", "DELETE_LIST", "ADD_SHOP", "UPDATE_SHOP",
   "DELETE_SHOP", "ADD_SCHEDULE", "UPDATE_SCHEDULE", "DELETE_SCHEDULE", "ADD_PRODUCT",
   "UPDATE_PRODUCT", "DELETE_PRODUCT", "ADD_SHOP_PRODUCT_BRAND",
   "UPDATE_SHOP_PRODUCT_BRAND", "DELETE_SHOP_PRODUCT_BRAND",
   "DELETE_SHOP_PRODUCT_BRANDS_FOR_PRODUCT", "UPDATE_SETTINGS"}

CascadingOps == {"DELETE_SHOP", "DELETE_PRODUCT"}

UpdateAndDeleteOps ==
  {"UPDATE_LIST", "DELETE_LIST", "UPDATE_SHOP", "DELETE_SHOP", "UPDATE_SCHEDULE",
   "DELETE_SCHEDULE", "UPDATE_PRODUCT", "DELETE_PRODUCT", "UPDATE_SHOP_PRODUCT_BRAND",
   "DELETE_SHOP_PRODUCT_BRAND", "DELETE_SHOP_PRODUCT_BRANDS_FOR_PRODUCT"}

(* the step leaves every field outside F as it was                         *)
SameOutside(F) == \A f \in Fields \ F : AppState'[f] = AppState[f]

(* the step removes the price records of one shop id, or of one product    *)
(* id, and nothing else of the price records                               *)
RecordsFilteredByShop ==
  \E id \in ShopIds :
    /\ shopProductBrands' = SelectSeq(shopProductBrands, LAMBDA spb : spb.shopId # id)
    /\ shops' = SelectSeq(shops, LAMBDA shop : shop.id # id)

RecordsFilteredByProduct ==
  \E id \in ProductIds :
    /\ shopProductBrands' = SelectSeq(shopProductBrands, LAMBDA spb : spb.productId # id)
    /\ products' = SelectSeq(products, LAMBDA product : product.id # id)

(* what C30 says of every action but the last clause                       *)
NamedCollectionOnly ==
  /\ last'.op \notin CascadingOps \cup {"SET_STATE"} =>
       SameOutside({NamedCollection(last'.op)})
  /\ last'.op = "DELETE_SHOP" =>
       SameOutside({"shops", "shopProductBrands"}) /\ RecordsFilteredByShop
  /\ last'.op = "DELETE_PRODUCT" =>
       SameOutside({"products", "shopProductBrands"}) /\ RecordsFilteredByProduct

(* C30 as stated: every reducer action changes only the collection it      *)
(* names (SET_STATE names the whole state), DELETE_SHOP and DELETE_PRODUCT *)
(* also filter the price records, and an UPDATE or DELETE whose id matches *)
(* no element leaves the whole state as it was.  DELETE_SHOP and           *)
(* DELETE_PRODUCT filter the price records also when no shop or product    *)
(* has the id.                                                             *)
C30_OnlyNamedCollectionChanges ==
  [][last'.op \in ReducerOps =>
       /\ NamedCollectionOnly
       /\ (last'.op \in UpdateAndDeleteOps /\ ~last'.hit) => SameOutside({})]_vars

(* C30, amended: as stated, except that a DELETE_SHOP or DELETE_PRODUCT    *)
(* whose id matches no shop or product still removes the price records     *)
(* that refer to the id and leaves everything else as it was.              *)
C30_OnlyNamedCollectionChangesOrphansRemoved ==
  [][last'.op \in ReducerOps =>
       /\ NamedCollectionOnly
       /\ (last'.op \in UpdateAndDeleteOps /\ ~last'.hit) =>
            IF last'.op \in CascadingOps
            THEN SameOutside({"shopProductBrands"})
            ELSE SameOutside({})]_vars

(* a DELETE_SHOP for an id that no shop has removed a price record         *)
C30_Witness ==
  /\ last.op = "DELETE_SHOP"
  /\ ~last.hit
  /\ last.removed > 0

====
